---------------------------- MODULE Spec2Model ----------------------------
(***************************************************************************)
(* A model of the vscode-alembic extension: the command runner             *)
(* (AlembicService.executeCommand), the history parser (parseMigrations),  *)
(* the applied-set walk and the graph projection (getMigrations,           *)
(* getMigrationGraph), the user-triggered commands of AlembicService, and  *)
(* the INI patcher (utils/iniEditor.ts).                                   *)
(*                                                                         *)
(* Text is modelled as a sequence of one-character strings, so that        *)
(* splitting, trimming and the regular expressions of the source are       *)
(* computed character by character.                                        *)
(***************************************************************************)
EXTENDS Integers, Sequences, FiniteSets, TLC

(***************************************************************************)
(* Bounds of the model.                                                    *)
(***************************************************************************)
\* the `history` subprocess writes at most this many lines
MaxLines == 2
\* every other subprocess writes at most this many chunks to stdout
MaxOutChunks == 1
\* a subprocess writes at most this many chunks to stderr
MaxErrChunks == 1
\* `alembic heads` writes at most this many chunks
MaxHeads == 2
\* the INI file has at most this many lines
MaxIniLines == 3
\* the watchers handle at most this many events
MaxEvents == 3
\* the short texts given to the functions of AlembicUtils have at most this
\* many characters
MaxTextLen == 2
\* the small values of their numeric argument go up to this
MaxArg == 4
\* each view creates at most this many panels
MaxPanels == 2

\* the loop counter of the ancestor walk saturates here (above every list length)
WalkCountCap == MaxLines + 3

(***************************************************************************)
(* Characters and the character classes of the JavaScript regular          *)
(* expressions used by the source.                                         *)
(***************************************************************************)
HexChars ==
    {"a", "b", "c", "d", "e", "f",
     "0", "1", "2", "3", "4", "5", "6", "7", "8", "9"}

SpaceChars == {" ", "\t", "\r", "\n"}

LineTerminators == {"\n", "\r"}

\* the JavaScript value undefined (distinct from every text, the empty one included)
Undefined == <<"undefined">>

Truthy(v) == v # Undefined /\ v # <<>>

MinOf(S) == CHOOSE x \in S : \A y \in S : x <= y

\* String.prototype.startsWith
StartsWith(s, prefix) ==
    Len(s) >= Len(prefix) /\ SubSeq(s, 1, Len(prefix)) = prefix

\* String.prototype.includes
Contains(hay, needle) ==
    \E i \in 0..(Len(hay) - Len(needle)) : SubSeq(hay, i + 1, i + Len(needle)) = needle

\* the characters of s from `from` to `to` all belong to the class cls
AllIn(s, from, to, cls) == \A k \in from..to : s[k] \in cls

\* number of consecutive characters of class cls in s starting at index from
RECURSIVE RunLen(_, _, _)
RunLen(s, from, cls) ==
    IF from > Len(s) \/ s[from] \notin cls THEN 0 ELSE 1 + RunLen(s, from + 1, cls)

\* String.prototype.trim
Trim(s) ==
    LET keep == {k \in 1..Len(s) : s[k] \notin SpaceChars}
    IN  IF keep = {} THEN <<>>
        ELSE SubSeq(s, MinOf(keep), CHOOSE x \in keep : \A y \in keep : y <= x)

\* String.prototype.split("\n")
RECURSIVE SplitNewline(_)
SplitNewline(s) ==
    LET at == {k \in 1..Len(s) : s[k] = "\n"}
    IN  IF at = {} THEN <<s>>
        ELSE <<SubSeq(s, 1, MinOf(at) - 1)>>
                 \o SplitNewline(SubSeq(s, MinOf(at) + 1, Len(s)))

\* decimal digits of a natural number, as text
RECURSIVE DecStr(_)
DecStr(n) ==
    LET digit == <<"0", "1", "2", "3", "4", "5", "6", "7", "8", "9">>
    IN  IF n < 10 THEN <<digit[n + 1]>>
        ELSE DecStr(n \div 10) \o <<digit[(n % 10) + 1]>>

(***************************************************************************)
(* AlembicUtils                                                            *)
(***************************************************************************)
ShortHashLength == 8

FormatMaxLength == 50

\* the text.substring(0, end) of JavaScript: a negative end counts as 0 and
\* an end beyond the text as its length
SubstringFromStart(text, end) ==
    IF end <= 0 THEN <<>>
    ELSE IF end >= Len(text) THEN text
    ELSE SubSeq(text, 1, end)

\* faulty variant: one character more than asked for
getShortHash_OneMore(hash, length) == SubstringFromStart(hash, length + 1)

\* hash?.substring(0, length) || ""
getShortHash(hash, length) == SubstringFromStart(hash, length)

NoDescription ==
    <<"N", "o", " ", "d", "e", "s", "c", "r", "i", "p", "t", "i", "o", "n">>

formatMessage(message, maxLength) ==
    IF message = <<>> THEN NoDescription
    ELSE IF Len(message) <= maxLength THEN message
    ELSE SubstringFromStart(message, maxLength - 3) \o <<".", ".", ".">>

SanitizeMaxLength == 50

UpperLetters ==
    <<"A", "B", "C", "D", "E", "F", "G", "H", "I", "J", "K", "L", "M", "N",
      "O", "P", "Q", "R", "S", "T", "U", "V", "W", "X", "Y", "Z">>

LowerLetters ==
    <<"a", "b", "c", "d", "e", "f", "g", "h", "i", "j", "k", "l", "m", "n",
      "o", "p", "q", "r", "s", "t", "u", "v", "w", "x", "y", "z">>

Digits == {"0", "1", "2", "3", "4", "5", "6", "7", "8", "9"}

\* String.prototype.toLowerCase, for one character
ToLowerChar(c) ==
    IF \E k \in 1..Len(UpperLetters) : UpperLetters[k] = c
    THEN LowerLetters[CHOOSE k \in 1..Len(UpperLetters) : UpperLetters[k] = c]
    ELSE c

\* faulty variant: the result is not cut
sanitizeMessage_NoCut(message) ==
    LET lower == [k \in 1..Len(message) |-> ToLowerChar(message[k])]
        Kept(c) == c \in {LowerLetters[k] : k \in 1..Len(LowerLetters)}
                          \cup Digits \cup SpaceChars
        kept == SelectSeq(lower, Kept)
    IN  [k \in 1..Len(kept) |-> IF kept[k] \in SpaceChars THEN "_" ELSE kept[k]]

\* message.toLowerCase().replace(/[^a-z0-9\s]/g, "").replace(/\s/g, "_")
\*        .substring(0, 50)
sanitizeMessage(message) ==
    LET lower == [k \in 1..Len(message) |-> ToLowerChar(message[k])]
        Kept(c) == c \in {LowerLetters[k] : k \in 1..Len(LowerLetters)}
                          \cup Digits \cup SpaceChars
        kept == SelectSeq(lower, Kept)
        underscored == [k \in 1..Len(kept) |->
                          IF kept[k] \in SpaceChars THEN "_" ELSE kept[k]]
    IN  SubstringFromStart(underscored, SanitizeMaxLength)

(***************************************************************************)
(* AlembicService.parseMigrations                                          *)
(***************************************************************************)
NoneText == <<"N", "o", "n", "e">>

\* line.match(/^([a-f0-9]+)\s+\->\s+([a-f0-9]+)?\s*,?\s*(.*)$/): every
\* quantifier is greedy and no shorter choice can make the rest match, so the
\* match is the greedy one; `.` matches no line terminator.
HistoryLineMatch(line) ==
    LET h1 == RunLen(line, 1, HexChars)
        w1 == RunLen(line, h1 + 1, SpaceChars)
        ar == h1 + w1 + 1
        hasArrow == ar + 1 <= Len(line) /\ line[ar] = "-" /\ line[ar + 1] = ">"
        w2 == RunLen(line, ar + 2, SpaceChars)
        p4 == ar + 2 + w2
        h2 == RunLen(line, p4, HexChars)
        p5 == p4 + h2
        w3 == RunLen(line, p5, SpaceChars)
        p6 == p5 + w3
        cm == IF p6 <= Len(line) /\ line[p6] = "," THEN 1 ELSE 0
        p7 == p6 + cm
        w4 == RunLen(line, p7, SpaceChars)
        rest == SubSeq(line, p7 + w4, Len(line))
        ok == /\ h1 >= 1
              /\ w1 >= 1
              /\ hasArrow
              /\ w2 >= 1
              /\ \A k \in 1..Len(rest) : rest[k] \notin LineTerminators
    IN  IF ok
        THEN [matched |-> TRUE,
              downRev |-> SubSeq(line, 1, h1),
              id      |-> IF h2 >= 1 THEN SubSeq(line, p4, p5 - 1) ELSE Undefined,
              message |-> rest]
        ELSE [matched |-> FALSE, downRev |-> Undefined, id |-> Undefined,
              message |-> Undefined]

\* faulty variant: the current revision is recognised by its parent
MigrationOf_CurrentByParent(m, currentMigration, showFullHash) ==
    [id           |-> m.id,
     shortId      |-> IF showFullHash THEN m.id ELSE getShortHash(m.id, ShortHashLength),
     message      |-> formatMessage(Trim(m.message), FormatMaxLength),
     isCurrent    |-> m.downRev = currentMigration,
     isApplied    |-> TRUE,
     downRevision |-> IF m.downRev # NoneText THEN m.downRev ELSE Undefined]

\* faulty variant: the first capture group is taken as the id
MigrationOf_IdFromParent(m, currentMigration, showFullHash) ==
    [id           |-> m.downRev,
     shortId      |-> IF showFullHash THEN m.downRev ELSE getShortHash(m.downRev, ShortHashLength),
     message      |-> formatMessage(Trim(m.message), FormatMaxLength),
     isCurrent    |-> m.downRev = currentMigration,
     isApplied    |-> TRUE,
     downRevision |-> IF m.downRev # NoneText THEN m.downRev ELSE Undefined]

\* the object pushed for one matched line with an id
MigrationOf(m, currentMigration, showFullHash) ==
    [id           |-> m.id,
     shortId      |-> IF showFullHash THEN m.id ELSE getShortHash(m.id, ShortHashLength),
     message      |-> formatMessage(Trim(m.message), FormatMaxLength),
     isCurrent    |-> m.id = currentMigration,
     isApplied    |-> TRUE,
     downRevision |-> IF m.downRev # NoneText THEN m.downRev ELSE Undefined]

RECURSIVE ParseLines(_, _, _)
ParseLines(lines, currentMigration, showFullHash) ==
    IF lines = <<>> THEN <<>>
    ELSE LET m == HistoryLineMatch(Head(lines))
             rest == ParseLines(Tail(lines), currentMigration, showFullHash)
         IN  IF m.matched /\ Truthy(m.id)
             THEN <<MigrationOf(m, currentMigration, showFullHash)>> \o rest
             ELSE rest

parseMigrations(historyOutput, currentOutput, showFullHash) ==
    ParseLines(SplitNewline(historyOutput), Trim(currentOutput), showFullHash)

(***************************************************************************)
(* The texts the external tool can write (the inputs of the model).        *)
(***************************************************************************)
IdA == <<"a", "a", "a", "1", "1", "1">>

IdB == <<"b", "b", "b", "2", "2", "2">>

IdC == <<"c", "c">>

MsgInit == <<"i", "n", "i", "t", " ", "s", "c", "h", "e", "m", "a">>

MsgUsers == <<"a", "d", "d", " ", "u", "s", "e", "r", "s">>

\* a history line of the form `<parent> -> <id>, <message>`
HistLine(parent, id, msg) == parent \o <<" ", "-", ">", " ">> \o id \o <<",", " ">> \o msg

\* (parent, id, message) of the well-formed history lines the tool can write
HistoryTriples ==
    { <<NoneText, IdA, MsgInit>>,
      <<IdA, IdB, MsgUsers>>,
      <<IdB, IdA, MsgUsers>>,
      <<IdB, IdC, MsgInit>>,
      <<IdA, IdC, MsgUsers>> }

HistoryLinePool == {HistLine(t[1], t[2], t[3]) : t \in HistoryTriples}

\* what `alembic current` can write: a bare id, or an id decorated as a head
CurrentChunks ==
    { IdB, IdC \o <<"\n">>,
      IdB \o <<" ", "(", "h", "e", "a", "d", ")", "\n">> }

OkChunk == <<"o", "k", "\n">>

\* what `alembic heads -v` can write for a head
HeadsChunks ==
    { IdA \o <<" ", "(", "h", "e", "a", "d", ")", "\n">>,
      IdB \o <<" ", "(", "h", "e", "a", "d", ")", "\n">>,
      OkChunk }

\* a listing as `alembic list_templates` writes it
TemplatesListing ==
    <<"A", "v", "a", "i", "l", "a", "b", "l", "e", " ", "t", "e", "m", "p",
      "l", "a", "t", "e", "s", ":", "\n", "\n", "a", "s", "y", "n", "c", " ",
      "-", " ", "A", "s", "y", "n", "c", ".", "\n", "g", "e", "n", "e", "r",
      "i", "c", " ", "-", " ", "G", "e", "n", "e", "r", "i", "c", ".", "\n",
      "\n", " ", " ", "a", "l", "e", "m", "b", "i", "c", " ", "i", "n", "i",
      "t", " ", "x", "\n">>

TemplatesChunks == {TemplatesListing, OkChunk}

\* what the user can type into an input box
MinusOne == <<"-", "1">>

RevId0001 == <<"0", "0", "0", "1">>

ErrChunk == <<"e", "r", "r", "\n">>

ExitCodes == {0, 1}

\* what the shell of spawn(..., {shell: true}) writes when it cannot launch
\* the executable
NotFoundChunk ==
    <<"s", "h", ":", " ", "a", "l", "e", "m", "b", "i", "c", ":", " ",
      "n", "o", "t", " ", "f", "o", "u", "n", "d", "\n">>

(***************************************************************************)
(* State.                                                                  *)
(***************************************************************************)
VARIABLES
    cmd,            \* the user-triggered action in progress (or last finished)
    pc,             \* where that action is suspended
    workspace,      \* whether a workspace folder is open (getWorkspaceFolder)
    proc,           \* the child process of the executeCommand call in flight
    stdout,         \* executeCommand: the stdout captured so far
    stderr,         \* executeCommand: the stderr captured so far
    settled,        \* how the last executeCommand promise settled
    historyResult,  \* getMigrations: output of `history`
    currentResult,  \* getMigrations: output of `current`
    migrations,     \* getMigrations: the parsed list
    walker,         \* getMigrations: the walk's cursor
    applied,        \* getMigrations: the ids visited by the walk
    walkCount,      \* iterations of the walk's loop so far (saturating)
    graph,          \* the payload the action in progress posted to the graph view
    notifications,  \* notifications shown by the action in progress
    logLines,       \* lines the action in progress appended to the output channel
    consoleErrors,  \* console.error calls of the action in progress
    calls,          \* other editor calls of the action in progress, in order
    config,         \* the settings alembic.alembicPath and alembic.configFile
    inFlight,       \* subcommands of the child processes spawned and not yet closed
    iniPc,          \* INI patcher: which applications have been computed
    iniContent,     \* INI patcher: the text of the file
    iniSection,     \* INI patcher: the section name
    iniUpdates,     \* INI patcher: the updates, in insertion order
    iniOnce,        \* updateIniSection applied once
    iniTwice,       \* updateIniSection applied to its own output
    iniParsed,      \* parseIni applied to the text
    iniFile,        \* settings editor: the configuration file on disk
    edOps,          \* settings editor: the message handlers in progress
    edSettings,     \* the settings written by applyRevisionStrategy
    autoRefresh,    \* file watcher: the setting alembic.autoRefresh
    treeFires,      \* calls of migrationProvider.refresh() so far
    watchLog,       \* file watcher: the events handled so far, in order
    views,          \* webviews: the panel handle and the panels of each view
    utilPc,         \* AlembicUtils: which function has been applied
    utilIn,         \* AlembicUtils: the arguments
    utilOut         \* AlembicUtils: the result

cmdVars == <<cmd, pc, workspace, proc, stdout, stderr, settled, historyResult,
             currentResult, migrations, walker, applied, walkCount, graph,
             notifications, logLines, consoleErrors, calls, config, inFlight>>

edVars == <<iniFile, edOps, edSettings>>

watchVars == <<autoRefresh, treeFires, watchLog>>

utilVars == <<utilPc, utilIn, utilOut>>

hostVars == <<autoRefresh, treeFires, watchLog, views, utilPc, utilIn, utilOut>>

iniFnVars == <<iniPc, iniContent, iniSection, iniUpdates, iniOnce, iniTwice, iniParsed>>

iniVars == <<iniPc, iniContent, iniSection, iniUpdates, iniOnce, iniTwice, iniParsed,
             iniFile, edOps, edSettings,
             autoRefresh, treeFires, watchLog, views, utilPc, utilIn, utilOut>>

vars == <<cmd, pc, workspace, proc, stdout, stderr, settled, historyResult,
          currentResult, migrations, walker, applied, walkCount, graph,
          notifications, logLines, consoleErrors, calls, config, inFlight,
          iniPc, iniContent, iniSection, iniUpdates, iniOnce, iniTwice,
          iniParsed, iniFile, edOps, edSettings,
          autoRefresh, treeFires, watchLog, views, utilPc, utilIn, utilOut>>

NoProc == [state |-> "none", args |-> <<>>, nOut |-> 0, nErr |-> 0, failed |-> FALSE]

NoResult ==
    [state |-> "none", payload |-> <<>>, error |-> "none", code |-> 0, seq |-> 0,
     sub |-> <<>>, failures |-> 0]

EmptyGraph == [nodes |-> <<>>, edges |-> <<>>]

(***************************************************************************)
(* AlembicService.buildCommand and executeCommand                          *)
(***************************************************************************)
\* the words of the command lines, as texts
\* config.alembicPath, whose default is "alembic"
AlembicPath ==
    <<"a", "l", "e", "m", "b", "i", "c">>

\* config.configFile, whose default is "alembic.ini"
ConfigFile ==
    <<"a", "l", "e", "m", "b", "i", "c", ".", "i", "n", "i">>

ArgConfig ==
    <<"-", "c">>

ArgHistory ==
    <<"h", "i", "s", "t", "o", "r", "y">>

ArgCurrent ==
    <<"c", "u", "r", "r", "e", "n", "t">>

ArgVersion ==
    <<"-", "-", "v", "e", "r", "s", "i", "o", "n">>

ArgListTemplates ==
    <<"l", "i", "s", "t", "_", "t", "e", "m", "p", "l", "a", "t", "e", "s">>

ArgInit ==
    <<"i", "n", "i", "t">>

ArgTemplate ==
    <<"-", "-", "t", "e", "m", "p", "l", "a", "t", "e">>

ArgRevision ==
    <<"r", "e", "v", "i", "s", "i", "o", "n">>

ArgAutogenerate ==
    <<"-", "-", "a", "u", "t", "o", "g", "e", "n", "e", "r", "a", "t", "e">>

ArgMessage ==
    <<"-", "m">>

ArgRevId ==
    <<"-", "-", "r", "e", "v", "-", "i", "d">>

ArgUpgrade ==
    <<"u", "p", "g", "r", "a", "d", "e">>

ArgHead ==
    <<"h", "e", "a", "d">>

ArgDowngrade ==
    <<"d", "o", "w", "n", "g", "r", "a", "d", "e">>

ArgVerbose ==
    <<"-", "-", "v", "e", "r", "b", "o", "s", "e">>

ArgHeads ==
    <<"h", "e", "a", "d", "s">>

ArgV ==
    <<"-", "v">>

ArgMerge ==
    <<"m", "e", "r", "g", "e">>

MergeHeadsText ==
    <<"m", "e", "r", "g", "e", " ", "h", "e", "a", "d", "s">>

GenericLabel ==
    <<"g", "e", "n", "e", "r", "i", "c">>

\* a path of the tool and a configuration file set by the user
CustomPath == <<"b", "i", "n", "/", "a", "l", "e", "m", "b", "i", "c">>

CustomFile == <<"d", "e", "v", ".", "i", "n", "i">>

\* ConfigurationManager.getConfiguration(): the defaults, or the user's values
ConfigChoices ==
    { [alembicPath |-> AlembicPath, configFile |-> ConfigFile],
      [alembicPath |-> CustomPath, configFile |-> CustomFile] }

\* faulty variant: the defaults are used whatever the settings say
buildCommand_Defaults(args) == <<AlembicPath, ArgConfig, ConfigFile>> \o args

buildCommand(args) == <<config.alembicPath, ArgConfig, config.configFile>> \o args

Subcommand(p) == IF Len(p.args) >= 4 THEN p.args[4] ELSE <<>>

\* the process runs `history` for getMigrations (showHistory adds --verbose)
PlainHistory(p) == Subcommand(p) = ArgHistory /\ Len(p.args) = 4

\* spawn(cmd, args, ...) with empty capture buffers
Spawned(command) ==
    [state |-> "running", args |-> command, nOut |-> 0, nErr |-> 0, failed |-> FALSE]

ExitMessage(code) ==
    <<"P", "r", "o", "c", "e", "s", "s", " ", "e", "x", "i", "t", "e", "d", " ",
      "w", "i", "t", "h", " ", "c", "o", "d", "e", " ">> \o DecStr(code)

NoWorkspaceMessage ==
    <<"N", "o", " ", "w", "o", "r", "k", "s", "p", "a", "c", "e", " ",
      "f", "o", "l", "d", "e", "r", " ", "a", "v", "a", "i", "l", "a", "b", "l", "e">>

\* faulty variant: success is taken to be "nothing on stderr"
ExecResult_ByStderr(code, out, err) ==
    IF err = <<>>
    THEN [state |-> "resolved", payload |-> out, error |-> "none", code |-> code,
          seq |-> settled.seq + 1, sub |-> Subcommand(proc),
          failures |-> settled.failures]
    ELSE [state |-> "rejected", payload |-> err, error |-> "Error", code |-> code,
          seq |-> settled.seq + 1, sub |-> Subcommand(proc),
          failures |-> settled.failures + 1]

\* process.on("close", code): resolve(stdout) or reject(new Error(...));
\* error is the class of the rejection (always Error); seq counts the executeCommand calls the action has seen settle, failures
\* those that were rejected, and sub is the subcommand of the last one
ExecResult(code, out, err) ==
    IF code = 0
    THEN [state |-> "resolved", payload |-> out, error |-> "none", code |-> code,
          seq |-> settled.seq + 1, sub |-> Subcommand(proc),
          failures |-> settled.failures]
    ELSE [state |-> "rejected",
          payload |-> IF err # <<>> THEN err ELSE ExitMessage(code),
          error |-> "Error", code |-> code, seq |-> settled.seq + 1, sub |-> Subcommand(proc),
          failures |-> settled.failures + 1]

\* executeCommand without a workspace folder, as the first call of an action:
\* throw new Error("No workspace folder available")
NoWorkspaceResult(command) ==
    [state |-> "rejected", payload |-> NoWorkspaceMessage, error |-> "Error",
     code |-> 0, seq |-> 1, sub |-> command[4], failures |-> 1]

\* spawn(cmd, args, ...): one more child process is in flight
Launch(flying, p) ==
    IF p.state = "running" THEN flying \cup {Subcommand(p)} ELSE flying

\* faulty variant: the caller goes on before the child process has closed
Reap_NotAwaited(flying, p) == flying

\* process.on("close"): the awaited child process is no longer in flight
Reap(flying, p) ==
    IF p.state = "running" THEN flying \ {Subcommand(p)} ELSE flying

\* the code `close` reports: that of the tool or, when the shell could not
\* launch it, the shell's 127
CloseCodes(p) == IF p.failed THEN {127} ELSE ExitCodes

\* the chunks a subprocess can write to its stdout, and how many
StdoutChunks(p) ==
    IF PlainHistory(p) THEN {l \o <<"\n">> : l \in HistoryLinePool}
    ELSE IF Subcommand(p) = ArgCurrent THEN CurrentChunks
    ELSE IF Subcommand(p) = ArgHeads THEN HeadsChunks
    ELSE IF Subcommand(p) = ArgListTemplates THEN TemplatesChunks
    ELSE {OkChunk}

StdoutLimit(p) ==
    IF PlainHistory(p) THEN MaxLines
    ELSE IF Subcommand(p) = ArgHeads THEN MaxHeads
    ELSE MaxOutChunks

\* process.stdout.on("data")
StdoutData ==
    /\ proc.state = "running"
    /\ ~proc.failed
    /\ proc.nOut < StdoutLimit(proc)
    /\ \E chunk \in StdoutChunks(proc) : stdout' = stdout \o chunk
    /\ proc' = [proc EXCEPT !.nOut = @ + 1]
    /\ UNCHANGED <<cmd, pc, workspace, stderr, settled, historyResult,
                   currentResult, migrations, walker, applied, walkCount, graph,
                   notifications, logLines, consoleErrors, calls>>
    /\ UNCHANGED <<config, inFlight, iniVars>>

\* process.stderr.on("data")
StderrData ==
    /\ proc.state = "running"
    /\ ~proc.failed
    /\ proc.nErr < MaxErrChunks
    /\ stderr' = stderr \o ErrChunk
    /\ proc' = [proc EXCEPT !.nErr = @ + 1]
    /\ UNCHANGED <<cmd, pc, workspace, stdout, settled, historyResult,
                   currentResult, migrations, walker, applied, walkCount, graph,
                   notifications, logLines, consoleErrors, calls>>
    /\ UNCHANGED <<config, inFlight, iniVars>>

\* spawn(cmd, args, {shell: true}) when the executable is missing or may not
\* be run: the shell starts, reports on stderr and exits
ShellCannotLaunch ==
    /\ proc.state = "running"
    /\ ~proc.failed
    /\ proc.nOut = 0
    /\ proc.nErr = 0
    /\ stderr' = stderr \o NotFoundChunk
    /\ proc' = [proc EXCEPT !.nErr = @ + 1, !.failed = TRUE]
    /\ UNCHANGED <<cmd, pc, workspace, stdout, settled, historyResult,
                   currentResult, migrations, walker, applied, walkCount, graph,
                   notifications, logLines, consoleErrors, calls>>
    /\ UNCHANGED <<config, inFlight, iniVars>>

\* the user changes the settings of the extension
ConfigurationChanged ==
    /\ config' \in ConfigChoices \ {config}
    /\ UNCHANGED <<cmd, pc, workspace, proc, stdout, stderr, settled, historyResult,
                   currentResult, migrations, walker, applied, walkCount, graph,
                   notifications, logLines, consoleErrors, calls>>
    /\ UNCHANGED <<inFlight, iniVars>>

(***************************************************************************)
(* AlembicService.getMigrations and getMigrationGraph                      *)
(***************************************************************************)
\* migrations.find((m) => m.isCurrent)?.id
FindCurrent(list) ==
    LET hits == {i \in 1..Len(list) : list[i].isCurrent}
    IN  IF hits = {} THEN Undefined ELSE list[MinOf(hits)].id

\* faulty variant: a key that is not listed leads to itself
IdToDown_SelfWhenMissing(list, key) ==
    LET hits == {i \in 1..Len(list) : list[i].id = key}
    IN  IF hits = {} THEN key
        ELSE list[CHOOSE i \in hits : \A j \in hits : j <= i].downRevision

\* idToDown[key] after `for (const m of migrations) idToDown[m.id] = m.downRevision`
IdToDown(list, key) ==
    LET hits == {i \in 1..Len(list) : list[i].id = key}
    IN  IF hits = {} THEN Undefined
        ELSE list[CHOOSE i \in hits : \A j \in hits : j <= i].downRevision

\* faulty variant: only the current revision counts as applied
MarkApplied_CurrentOnly(list, ids) ==
    [i \in 1..Len(list) |-> [list[i] EXCEPT !.isApplied = list[i].isCurrent]]

\* faulty variant: the revision the walk starts from is not marked
MarkApplied_AncestorsOnly(list, ids) ==
    [i \in 1..Len(list) |->
       [list[i] EXCEPT !.isApplied = (list[i].id \in ids /\ ~list[i].isCurrent)]]

\* for (const m of migrations) m.isApplied = applied.has(m.id)
MarkApplied(list, ids) ==
    [i \in 1..Len(list) |-> [list[i] EXCEPT !.isApplied = (list[i].id \in ids)]]

\* faulty variant: the applied colour takes precedence over the current colour
NodeColor_AppliedFirst(m) ==
    IF m.isApplied THEN "#2196F3" ELSE IF m.isCurrent THEN "#4CAF50" ELSE "#FFC107"

\* migration.isCurrent ? "#4CAF50" : migration.isApplied ? "#2196F3" : "#FFC107"
NodeColor(m) ==
    IF m.isCurrent THEN "#4CAF50" ELSE IF m.isApplied THEN "#2196F3" ELSE "#FFC107"

GraphNode(m) ==
    [id |-> m.id, label |-> m.shortId, title |-> m.message, color |-> NodeColor(m)]

\* faulty variant: edges of pending revisions are pruned
RECURSIVE WithDownRevision_AppliedOnly(_)
WithDownRevision_AppliedOnly(list) ==
    IF list = <<>> THEN <<>>
    ELSE IF Truthy(Head(list).downRevision) /\ Head(list).isApplied
         THEN <<Head(list)>> \o WithDownRevision_AppliedOnly(Tail(list))
         ELSE WithDownRevision_AppliedOnly(Tail(list))

\* migrations.filter((m) => m.downRevision)
RECURSIVE WithDownRevision(_)
WithDownRevision(list) ==
    IF list = <<>> THEN <<>>
    ELSE IF Truthy(Head(list).downRevision)
         THEN <<Head(list)>> \o WithDownRevision(Tail(list))
         ELSE WithDownRevision(Tail(list))

GraphEdge(m) == [from |-> m.downRevision, to |-> m.id]

getMigrationGraph(list) ==
    [nodes |-> [i \in 1..Len(list) |-> GraphNode(list[i])],
     edges |-> LET kept == WithDownRevision(list)
               IN  [i \in 1..Len(kept) |-> GraphEdge(kept[i])]]

\* a line of the output channel: what it says (tag and text) and the error or
\* output text it carries
LogLine(tag, text, detail) == [tag |-> tag, text |-> text, detail |-> detail]

\* this.outputChannel.appendLine(`Executing: ${command.join(" ")}`)
ExecutingLine == LogLine("Executing", "", <<>>)

\* new MigrationItem(label, id, collapsibleState, contextValue)
MigrationItem(label, id, collapsibleState, contextValue) ==
    [label |-> label, id |-> id, collapsibleState |-> collapsibleState,
     contextValue |-> contextValue]

NoMigrationsFound ==
    <<"N", "o", " ", "m", "i", "g", "r", "a", "t", "i", "o", "n", "s", " ",
      "f", "o", "u", "n", "d">>

\* createMigrationItem(m, status), without the icon and the tooltip
createMigrationItem(m) ==
    MigrationItem(m.shortId \o <<" ", "-", " ">> \o m.message, m.id, "None",
                  "migration")

\* one group of the tree: its category item, then its migrations
TreeGroup(label, state, list) ==
    IF list = <<>> THEN <<>>
    ELSE <<MigrationItem(label, <<>>, state, "category")>>
         \o [k \in 1..Len(list) |-> createMigrationItem(list[k])]

\* faulty variant: an empty list gives an empty tree
getChildren_NoPlaceholder(list) ==
    LET IsCurrent(m) == m.isCurrent
        IsApplied(m) == m.isApplied /\ ~m.isCurrent
        IsPending(m) == ~m.isApplied
    IN  TreeGroup(<<"C", "u", "r", "r", "e", "n", "t">>, "Expanded", SelectSeq(list, IsCurrent))
        \o TreeGroup(<<"A", "p", "p", "l", "i", "e", "d">>, "Collapsed", SelectSeq(list, IsApplied))
        \o TreeGroup(<<"P", "e", "n", "d", "i", "n", "g">>, "Collapsed", SelectSeq(list, IsPending))

\* getChildren() at the root, for the list getMigrations returned
getChildren(list) ==
    IF Len(list) = 0
    THEN <<MigrationItem(NoMigrationsFound, <<>>, "None", "info")>>
    ELSE LET IsCurrent(m) == m.isCurrent
             IsApplied(m) == m.isApplied /\ ~m.isCurrent
             IsPending(m) == ~m.isApplied
         IN  TreeGroup(<<"C", "u", "r", "r", "e", "n", "t">>, "Expanded", SelectSeq(list, IsCurrent))
             \o TreeGroup(<<"A", "p", "p", "l", "i", "e", "d">>, "Collapsed", SelectSeq(list, IsApplied))
             \o TreeGroup(<<"P", "e", "n", "d", "i", "n", "g">>, "Collapsed", SelectSeq(list, IsPending))

\* getMigrations has returned `list` to getChildren or to getMigrationGraph,
\* which runs to its end (updateGraph posts the payload to the panel)
Returned(c, list) ==
    /\ pc' = "done"
    /\ migrations' = list
    /\ graph' = IF c = "updateGraph" THEN getMigrationGraph(list) ELSE EmptyGraph

\* the tree view asks for its children, or the graph view asks for its data:
\* getMigrations starts with executeCommand(buildCommand(["history"]))
StartGetMigrations(c) ==
    /\ pc \in {"idle", "done"}
    /\ c \in {"getChildren", "updateGraph"}
    /\ cmd' = c
    /\ \E ws \in BOOLEAN :
         /\ workspace' = ws
         /\ IF ws
            THEN /\ proc' = Spawned(buildCommand(<<ArgHistory>>))
                 /\ logLines' = <<ExecutingLine>>
                 /\ consoleErrors' = <<>>
                 /\ settled' = NoResult
                 /\ pc' = "history"
                 /\ migrations' = <<>>
                 /\ graph' = EmptyGraph
            ELSE /\ proc' = NoProc
                 /\ logLines' = <<>>
                 /\ consoleErrors' = <<"Failed to get migrations">>
                 /\ settled' = NoWorkspaceResult(buildCommand(<<ArgHistory>>))
                 /\ Returned(c, <<>>)
    /\ stdout' = <<>>
    /\ stderr' = <<>>
    /\ historyResult' = <<>>
    /\ currentResult' = <<>>
    /\ walker' = Undefined
    /\ applied' = {}
    /\ walkCount' = 0
    /\ notifications' = <<>>
    /\ calls' = <<>>
    /\ inFlight' = Launch(Reap(inFlight, proc), proc')
    /\ UNCHANGED <<config, iniVars>>

\* `history` has closed: on success executeCommand(buildCommand(["current"]))
HistoryClose ==
    /\ pc = "history"
    /\ proc.state = "running"
    /\ \E code \in CloseCodes(proc) :
         LET r == ExecResult(code, stdout, stderr)
         IN  /\ settled' = r
             /\ IF r.state = "resolved"
                THEN /\ historyResult' = r.payload
                     /\ proc' = Spawned(buildCommand(<<ArgCurrent>>))
                     /\ logLines' = Append(logLines, ExecutingLine)
                     /\ pc' = "current"
                     /\ UNCHANGED <<migrations, graph, consoleErrors>>
                ELSE /\ proc' = NoProc
                     /\ consoleErrors' = Append(consoleErrors, "Failed to get migrations")
                     /\ Returned(cmd, <<>>)
                     /\ UNCHANGED <<historyResult, logLines>>
    /\ stdout' = <<>>
    /\ stderr' = <<>>
    /\ UNCHANGED <<cmd, workspace, currentResult, walker, applied, walkCount,
                   notifications, calls>>
    /\ inFlight' = Launch(Reap(inFlight, proc), proc')
    /\ UNCHANGED <<config, iniVars>>

\* `current` has closed: parseMigrations, then the walk from the current revision
CurrentClose ==
    /\ pc = "current"
    /\ proc.state = "running"
    /\ \E code \in CloseCodes(proc), showFullHash \in BOOLEAN :
         LET r == ExecResult(code, stdout, stderr)
             parsed == parseMigrations(historyResult, r.payload, showFullHash)
             current == FindCurrent(parsed)
         IN  /\ settled' = r
             /\ IF r.state = "resolved"
                THEN /\ currentResult' = r.payload
                     /\ IF Truthy(current)
                        THEN /\ migrations' = parsed
                             /\ walker' = current
                             /\ pc' = "walk"
                             /\ UNCHANGED graph
                        ELSE /\ Returned(cmd, MarkApplied(parsed, {}))
                             /\ UNCHANGED walker
                     /\ UNCHANGED consoleErrors
                ELSE /\ consoleErrors' = Append(consoleErrors, "Failed to get migrations")
                     /\ Returned(cmd, <<>>)
                     /\ UNCHANGED <<currentResult, walker>>
    /\ proc' = NoProc
    /\ stdout' = <<>>
    /\ stderr' = <<>>
    /\ UNCHANGED <<cmd, workspace, historyResult, applied, walkCount, notifications,
                   logLines, calls>>
    /\ inFlight' = Launch(Reap(inFlight, proc), proc')
    /\ UNCHANGED <<config, iniVars>>

\* one iteration of `while (walker) { applied.add(walker); walker = idToDown[walker]; }`
WalkStep ==
    /\ pc = "walk"
    /\ Truthy(walker)
    /\ applied' = applied \cup {walker}
    /\ walker' = IdToDown(migrations, walker)
    /\ walkCount' = IF walkCount < WalkCountCap THEN walkCount + 1 ELSE walkCount
    /\ UNCHANGED <<cmd, pc, workspace, proc, stdout, stderr, settled, historyResult,
                   currentResult, migrations, graph, notifications, logLines,
                   consoleErrors, calls>>
    /\ UNCHANGED <<config, inFlight, iniVars>>

\* the loop has ended: mark the list and return it
WalkEnd ==
    /\ pc = "walk"
    /\ ~Truthy(walker)
    /\ Returned(cmd, MarkApplied(migrations, applied))
    /\ UNCHANGED <<cmd, workspace, proc, stdout, stderr, settled, historyResult,
                   currentResult, walker, applied, walkCount, notifications, logLines,
                   consoleErrors, calls>>
    /\ UNCHANGED <<config, inFlight, iniVars>>

(***************************************************************************)
(* The commands of AlembicService: initAlembic, createMigration, upgrade,  *)
(* downgrade, showHistory, showVersion and mergeBranches.                  *)
(***************************************************************************)
UserCommands ==
    {"initAlembic", "createMigration", "upgrade", "downgrade", "showHistory",
     "showVersion", "mergeBranches"}

\* the first argument of showError in the catch block of command c
FailureText(c) ==
    CASE c = "initAlembic" -> "Failed to initialize Alembic"
      [] c = "createMigration" -> "Failed to create migration"
      [] c = "upgrade" -> "Failed to upgrade database"
      [] c = "downgrade" -> "Failed to downgrade database"
      [] c = "showHistory" -> "Failed to get migration history"
      [] c = "showVersion" -> "Failed to get Alembic version"
      [] c = "mergeBranches" -> "Failed to merge branches"

\* the information message of command c after its subprocess succeeded
SuccessText(c) ==
    CASE c = "initAlembic" -> "Alembic initialized successfully!"
      [] c = "createMigration" -> "Migration created successfully!"
      [] c = "upgrade" -> "Database upgraded"
      [] c = "downgrade" -> "Database downgraded"
      [] c = "mergeBranches" -> "Branches merged"

\* a notification: showErrorMessage (kind "error") or showInformationMessage
Notification(kind, text, detail) == [kind |-> kind, text |-> text, detail |-> detail]

\* showError: vscode.window.showErrorMessage(`${message}: ${errorMessage}`)
showErrorNotification(notes, message, error) ==
    Append(notes, Notification("error", message, error))

\* faulty variant: showError only notifies
showErrorLogLine_Silent(lines, message, error) == lines

\* showError: this.outputChannel.appendLine(`Error: ${message} - ${errorMessage}`)
showErrorLogLine(lines, message, error) ==
    Append(lines, LogLine("Error", message, error))

\* getAlembicVersion's catch:
\* this.outputChannel.appendLine(`Could not get Alembic version: ${error}`)
VersionErrorLine(error) == LogLine("Could not get Alembic version", "", error)

CouldNotDetermine ==
    Notification("error", "Could not determine Alembic version", <<>>)

\* faulty variant: downgrade runs with whatever the input box returned
FirstCommand_Unprompted(c, revision, answer, nextId) ==
    CASE c \in {"initAlembic", "showVersion"} -> buildCommand(<<ArgVersion>>)
      [] c = "createMigration" ->
           IF ~Truthy(answer) THEN <<>>
           ELSE buildCommand(<<ArgRevision, ArgAutogenerate, ArgMessage, answer>>
                               \o (IF Truthy(nextId) THEN <<ArgRevId, nextId>> ELSE <<>>))
      [] c = "upgrade" ->
           buildCommand(<<ArgUpgrade, IF Truthy(revision) THEN revision ELSE ArgHead>>)
      [] c = "downgrade" ->
           buildCommand(<<ArgDowngrade, IF Truthy(revision) THEN revision ELSE answer>>)
      [] c = "showHistory" -> buildCommand(<<ArgHistory, ArgVerbose>>)
      [] c = "mergeBranches" -> buildCommand(<<ArgHeads, ArgV>>)

\* the command line of the first executeCommand of command c, or <<>> when c
\* returns before it runs anything: revision is the argument of upgrade and
\* downgrade, answer what the input box returned, nextId what
\* computeNextSequentialId gave (undefined when the strategy is off or it failed)
FirstCommand(c, revision, answer, nextId) ==
    CASE c \in {"initAlembic", "showVersion"} -> buildCommand(<<ArgVersion>>)
      [] c = "createMigration" ->
           IF ~Truthy(answer) THEN <<>>
           ELSE buildCommand(<<ArgRevision, ArgAutogenerate, ArgMessage, answer>>
                               \o (IF Truthy(nextId) THEN <<ArgRevId, nextId>> ELSE <<>>))
      [] c = "upgrade" ->
           buildCommand(<<ArgUpgrade, IF Truthy(revision) THEN revision ELSE ArgHead>>)
      [] c = "downgrade" ->
           LET target == IF Truthy(revision) THEN revision ELSE answer
           IN  IF ~Truthy(target) THEN <<>> ELSE buildCommand(<<ArgDowngrade, target>>)
      [] c = "showHistory" -> buildCommand(<<ArgHistory, ArgVerbose>>)
      [] c = "mergeBranches" -> buildCommand(<<ArgHeads, ArgV>>)

\* the revision a tree item or the graph view passes to upgrade and downgrade
RevisionArguments(c) ==
    IF c \in {"upgrade", "downgrade"} THEN {Undefined, IdB} ELSE {Undefined}

\* what the first input box of command c can return
InputBoxAnswers(c) ==
    IF c \in {"createMigration", "downgrade"}
    THEN {Undefined, <<>>, MinusOne, MsgUsers}
    ELSE {Undefined}

\* what computeNextSequentialId can give createMigration
NextIds(c) == IF c = "createMigration" THEN {Undefined, RevId0001} ELSE {Undefined}

\* where command c waits for its first subprocess
FirstPc(c) ==
    CASE c \in {"initAlembic", "showVersion"} -> "version"
      [] c \in {"createMigration", "upgrade", "downgrade"} -> "run"
      [] c = "showHistory" -> "showHistory"
      [] c = "mergeBranches" -> "heads"

\* the user runs command c: its prompts, up to its first executeCommand
StartCommand(c) ==
    /\ pc \in {"idle", "done"}
    /\ c \in UserCommands
    /\ cmd' = c
    /\ \E ws \in BOOLEAN, revision \in RevisionArguments(c),
          answer \in InputBoxAnswers(c), nextId \in NextIds(c) :
         LET first == FirstCommand(c, revision, answer, nextId)
         IN  /\ workspace' = ws
             /\ IF c = "initAlembic" /\ ~ws
                THEN \* "Please open a workspace folder first"
                     /\ notifications' =
                          <<Notification("error", "Please open a workspace folder first", <<>>)>>
                     /\ logLines' = <<>>
                     /\ settled' = NoResult
                     /\ proc' = NoProc
                     /\ pc' = "done"
                ELSE IF first = <<>>
                THEN \* the input box was dismissed or left empty
                     /\ notifications' = <<>>
                     /\ logLines' = <<>>
                     /\ settled' = NoResult
                     /\ proc' = NoProc
                     /\ pc' = "done"
                ELSE IF ~ws
                THEN \* executeCommand throws, the command's catch block runs
                     /\ settled' = NoWorkspaceResult(first)
                     /\ proc' = NoProc
                     /\ pc' = "done"
                     /\ IF c = "showVersion"
                        THEN /\ logLines' = <<VersionErrorLine(NoWorkspaceMessage)>>
                             /\ notifications' = <<CouldNotDetermine>>
                        ELSE /\ logLines' =
                                  showErrorLogLine(<<>>, FailureText(c), NoWorkspaceMessage)
                             /\ notifications' =
                                  showErrorNotification(<<>>, FailureText(c),
                                                        NoWorkspaceMessage)
                ELSE /\ proc' = Spawned(first)
                     /\ logLines' = <<ExecutingLine>>
                     /\ notifications' = <<>>
                     /\ settled' = NoResult
                     /\ pc' = FirstPc(c)
    /\ stdout' = <<>>
    /\ stderr' = <<>>
    /\ historyResult' = <<>>
    /\ currentResult' = <<>>
    /\ migrations' = <<>>
    /\ walker' = Undefined
    /\ applied' = {}
    /\ walkCount' = 0
    /\ graph' = EmptyGraph
    /\ consoleErrors' = <<>>
    /\ calls' = <<>>
    /\ inFlight' = Launch(Reap(inFlight, proc), proc')
    /\ UNCHANGED <<config, iniVars>>

\* faulty variant: the list is refreshed whether the subprocess succeeded or not
RunCalls_Always(c, r) ==
    IF c = "initAlembic"
    THEN (IF r.state = "resolved" THEN <<"setContext alembic:hasAlembicConfig">>
          ELSE <<>>)
    ELSE <<"alembic.refreshMigrations">>

\* the vscode.commands.executeCommand call that ends the try block of
\* command c, whose subprocess has settled as r
RunCalls(c, r) ==
    IF r.state # "resolved" THEN <<>>
    ELSE IF c = "initAlembic" THEN <<"setContext alembic:hasAlembicConfig">>
    ELSE <<"alembic.refreshMigrations">>

\* the subprocess of createMigration, upgrade, downgrade, of the merge or of
\* the init has closed: the rest of the try block, or the catch block
RunClose(c) ==
    /\ pc = "run"
    /\ cmd = c
    /\ proc.state = "running"
    /\ \E code \in CloseCodes(proc) :
         LET r == ExecResult(code, stdout, stderr)
         IN  /\ settled' = r
             /\ IF r.state = "resolved"
                THEN /\ notifications' =
                          Append(notifications, Notification("info", SuccessText(c), <<>>))
                     /\ UNCHANGED logLines
                ELSE /\ notifications' =
                          showErrorNotification(notifications, FailureText(c), r.payload)
                     /\ logLines' = showErrorLogLine(logLines, FailureText(c), r.payload)
             /\ calls' = calls \o RunCalls(c, r)
    /\ pc' = "done"
    /\ proc' = NoProc
    /\ stdout' = <<>>
    /\ stderr' = <<>>
    /\ UNCHANGED <<cmd, workspace, historyResult, currentResult, migrations, walker,
                   applied, walkCount, graph, consoleErrors>>
    /\ inFlight' = Launch(Reap(inFlight, proc), proc')
    /\ UNCHANGED <<config, iniVars>>

\* `history --verbose` has closed: the channel is cleared and shows the result
ShowHistoryClose ==
    /\ pc = "showHistory"
    /\ proc.state = "running"
    /\ \E code \in CloseCodes(proc) :
         LET r == ExecResult(code, stdout, stderr)
         IN  /\ settled' = r
             /\ IF r.state = "resolved"
                THEN /\ logLines' = <<LogLine("=== Alembic Migration History ===", "", <<>>),
                                      LogLine("", "", r.payload)>>
                     /\ calls' = Append(calls, "outputChannel.show")
                     /\ UNCHANGED notifications
                ELSE /\ notifications' =
                          showErrorNotification(notifications, FailureText(cmd), r.payload)
                     /\ logLines' = showErrorLogLine(logLines, FailureText(cmd), r.payload)
                     /\ UNCHANGED calls
    /\ pc' = "done"
    /\ proc' = NoProc
    /\ stdout' = <<>>
    /\ stderr' = <<>>
    /\ UNCHANGED <<cmd, workspace, historyResult, currentResult, migrations, walker,
                   applied, walkCount, graph, consoleErrors>>
    /\ inFlight' = Launch(Reap(inFlight, proc), proc')
    /\ UNCHANGED <<config, iniVars>>

\* `--version` has closed: getAlembicVersion returns to showVersion, or to
\* initAlembic, which goes on to getAvailableTemplates
VersionClose ==
    /\ pc = "version"
    /\ proc.state = "running"
    /\ \E code \in CloseCodes(proc) :
         LET r == ExecResult(code, stdout, stderr)
             version == IF r.state = "resolved" THEN Trim(r.payload) ELSE Undefined
             logged == IF r.state = "resolved" THEN logLines
                       ELSE Append(logLines, VersionErrorLine(r.payload))
         IN  /\ settled' = r
             /\ IF cmd = "showVersion"
                THEN /\ IF Truthy(version)
                        THEN /\ notifications' =
                                  Append(notifications,
                                         Notification("info", "Alembic version", version))
                             /\ logLines' =
                                  Append(logged, LogLine("Alembic version", "", version))
                        ELSE /\ notifications' = Append(notifications, CouldNotDetermine)
                             /\ logLines' = logged
                     /\ proc' = NoProc
                     /\ pc' = "done"
                ELSE /\ logLines' =
                          (IF Truthy(version)
                           THEN Append(logged, LogLine("Using Alembic version", "", version))
                           ELSE logged)
                            \o <<LogLine("Getting available templates from Alembic...", "", <<>>),
                                 ExecutingLine>>
                     /\ proc' = Spawned(buildCommand(<<ArgListTemplates>>))
                     /\ pc' = "templates"
                     /\ UNCHANGED notifications
    /\ stdout' = <<>>
    /\ stderr' = <<>>
    /\ UNCHANGED <<cmd, workspace, historyResult, currentResult, migrations, walker,
                   applied, walkCount, graph, consoleErrors, calls>>
    /\ inFlight' = Launch(Reap(inFlight, proc), proc')
    /\ UNCHANGED <<config, iniVars>>

WordChars ==
    {"a", "b", "c", "d", "e", "f", "g", "h", "i", "j", "k", "l", "m", "n", "o", "p",
     "q", "r", "s", "t", "u", "v", "w", "x", "y", "z",
     "A", "B", "C", "D", "E", "F", "G", "H", "I", "J", "K", "L", "M", "N", "O", "P",
     "Q", "R", "S", "T", "U", "V", "W", "X", "Y", "Z",
     "0", "1", "2", "3", "4", "5", "6", "7", "8", "9", "_"}

AvailableTemplatesText ==
    <<"A", "v", "a", "i", "l", "a", "b", "l", "e", " ", "t", "e", "m", "p",
      "l", "a", "t", "e", "s", ":">>

TemplatesAreUsedViaText ==
    <<"T", "e", "m", "p", "l", "a", "t", "e", "s", " ", "a", "r", "e", " ",
      "u", "s", "e", "d", " ", "v", "i", "a">>

AlembicInitText ==
    <<"a", "l", "e", "m", "b", "i", "c", " ", "i", "n", "i", "t">>

AsyncLabel == <<"a", "s", "y", "n", "c">>

\* trimmedLine.match(/^(\w+)\s*-\s*(.+)\.?$/): the label, or undefined
TemplateLineMatch(t) ==
    LET n == RunLen(t, 1, WordChars)
        dash == n + RunLen(t, n + 1, SpaceChars) + 1
    IN  IF /\ n >= 1
           /\ dash <= Len(t)
           /\ t[dash] = "-"
           /\ \E b \in (dash + 1)..Len(t) :
                /\ AllIn(t, dash + 1, b - 1, SpaceChars)
                /\ \A k \in b..Len(t) : t[k] \notin LineTerminators
        THEN SubSeq(t, 1, n)
        ELSE Undefined

\* the second group of /^(\w+)\s*-\s*(.+)\.?$/ for a trimmed line that
\* matches: what follows the dash and the blanks after it
TemplateLineDescription(t) ==
    LET n == RunLen(t, 1, WordChars)
        dash == n + RunLen(t, n + 1, SpaceChars) + 1
        b == dash + 1 + RunLen(t, dash + 1, SpaceChars)
    IN  IF b <= Len(t) THEN SubSeq(t, b, Len(t)) ELSE SubSeq(t, dash + 1, Len(t))

\* description.trim().replace(/\.$/, "")
CleanDescription(description) ==
    LET d == Trim(description)
    IN  IF d # <<>> /\ d[Len(d)] = "." THEN SubSeq(d, 1, Len(d) - 1) ELSE d

RecommendedText ==
    <<" ", "(", "R", "e", "c", "o", "m", "m", "e", "n", "d", "e", "d", ")">>

\* the object pushed for a trimmed line that matches (without `detail`)
TemplateOf(t) ==
    LET label == Trim(TemplateLineMatch(t))
        cleanDescription == CleanDescription(TemplateLineDescription(t))
    IN  [label |-> label,
         description |-> IF label = GenericLabel
                         THEN cleanDescription \o RecommendedText
                         ELSE cleanDescription]

\* the loop of getAvailableTemplates over the lines of the listing
RECURSIVE ScanTemplateLines(_, _)
ScanTemplateLines(lines, inTemplateSection) ==
    IF lines = <<>> THEN <<>>
    ELSE LET line == Head(lines)
         IN  IF Contains(line, AvailableTemplatesText)
             THEN ScanTemplateLines(Tail(lines), TRUE)
             ELSE IF /\ inTemplateSection
                     /\ (Contains(line, TemplatesAreUsedViaText)
                           \/ Contains(line, AlembicInitText))
             THEN <<>>
             ELSE IF /\ inTemplateSection
                     /\ Trim(line) # <<>>
                     /\ Truthy(TemplateLineMatch(Trim(line)))
             THEN <<TemplateOf(Trim(line))>>
                    \o ScanTemplateLines(Tail(lines), inTemplateSection)
             ELSE ScanTemplateLines(Tail(lines), inTemplateSection)

\* the labels of a list of templates
TemplateLabels(templates) == [i \in 1..Len(templates) |-> templates[i].label]

\* the labels of the templates the loop finds
ScanTemplates(lines, inTemplateSection) ==
    TemplateLabels(ScanTemplateLines(lines, inTemplateSection))

\* templates.sort(...): "generic" first, the others by localeCompare (of the
\* labels a listing holds, "async" sorts before every other)
TemplateRank(label) ==
    IF label = GenericLabel THEN 0 ELSE IF label = AsyncLabel THEN 1 ELSE 2

\* faulty variant: the templates stay in the order of the listing
SortTemplates_AsListed(templates) == templates

RECURSIVE SortTemplates(_)
SortTemplates(templates) ==
    IF templates = <<>> THEN <<>>
    ELSE LET low == MinOf({TemplateRank(templates[i].label) : i \in 1..Len(templates)})
             first == MinOf({i \in 1..Len(templates) :
                               TemplateRank(templates[i].label) = low})
         IN  <<templates[first]>>
               \o SortTemplates(SubSeq(templates, 1, first - 1)
                                  \o SubSeq(templates, first + 1, Len(templates)))

\* getFallbackTemplates: the fallback list (without `detail`)
getFallbackTemplates ==
    <<[label |-> GenericLabel,
       description |->
           <<"G", "e", "n", "e", "r", "i", "c", " ", "s", "i", "n", "g", "l",
             "e", "-", "d", "a", "t", "a", "b", "a", "s", "e", " ", "c", "o",
             "n", "f", "i", "g", "u", "r", "a", "t", "i", "o", "n">>
           \o RecommendedText]>>

\* what getAvailableTemplates returns once `list_templates` has settled as r
getAvailableTemplates(r) ==
    LET templates == IF r.state = "resolved"
                     THEN ScanTemplateLines(SplitNewline(r.payload), FALSE)
                     ELSE <<>>
    IN  IF Len(templates) > 0 THEN SortTemplates(templates)
        ELSE getFallbackTemplates

\* the lines getAvailableTemplates appends once its subprocess has settled as r
TemplateLogLines(r, found) ==
    IF r.state = "rejected"
    THEN <<LogLine("Warning: Could not get templates from Alembic", "", r.payload),
           LogLine("Using fallback template list", "", <<>>)>>
    ELSE IF found = <<>>
    THEN <<LogLine("No templates found in Alembic output, using fallback", "", <<>>),
           LogLine("Using fallback template list", "", <<>>)>>
    ELSE <<LogLine("Found templates from Alembic:", "", DecStr(Len(found)))>>
           \o [i \in 1..Len(found) |-> LogLine("  - ", "", found[i])]

\* `list_templates` has closed: getAvailableTemplates returns, the user picks
\* a template and a directory name, and initAlembic runs `init`
TemplatesClose ==
    /\ pc = "templates"
    /\ proc.state = "running"
    /\ \E code \in CloseCodes(proc) :
         LET r == ExecResult(code, stdout, stderr)
             found == IF r.state = "resolved"
                      THEN ScanTemplates(SplitNewline(r.payload), FALSE)
                      ELSE <<>>
             templates == TemplateLabels(getAvailableTemplates(r))
         IN  /\ settled' = r
             /\ \E selected \in {Undefined} \cup {templates[i] : i \in 1..Len(templates)},
                   directoryName \in {Undefined, AlembicPath} :
                  IF Truthy(selected) /\ Truthy(Trim(directoryName))
                  THEN /\ proc' = Spawned(buildCommand(<<ArgInit, ArgTemplate, selected,
                                                         Trim(directoryName)>>))
                       /\ logLines' =
                            Append(logLines \o TemplateLogLines(r, found), ExecutingLine)
                       /\ pc' = "run"
                  ELSE /\ proc' = NoProc
                       /\ logLines' = logLines \o TemplateLogLines(r, found)
                       /\ pc' = "done"
    /\ stdout' = <<>>
    /\ stderr' = <<>>
    /\ UNCHANGED <<cmd, workspace, historyResult, currentResult, migrations, walker,
                   applied, walkCount, graph, notifications, consoleErrors, calls>>
    /\ inFlight' = Launch(Reap(inFlight, proc), proc')
    /\ UNCHANGED <<config, iniVars>>

HexCharsAnyCase == HexChars \cup {"A", "B", "C", "D", "E", "F"}

\* line.match(/^([0-9a-f]+)\b.*?\s+(.*)$/i): the id, or undefined
HeadLineMatch(line) ==
    LET n == RunLen(line, 1, HexCharsAnyCase)
    IN  IF /\ n >= 1
           /\ (n = Len(line) \/ line[n + 1] \notin WordChars)
           /\ \E a \in (n + 1)..Len(line) : \E b \in a..Len(line) :
                /\ \A k \in (n + 1)..(a - 1) : line[k] \notin LineTerminators
                /\ AllIn(line, a, b, SpaceChars)
                /\ \A k \in (b + 1)..Len(line) : line[k] \notin LineTerminators
        THEN SubSeq(line, 1, n)
        ELSE Undefined

\* rawHeads: the ids of the lines of `heads -v` that match
RECURSIVE RawHeads(_)
RawHeads(lines) ==
    IF lines = <<>> THEN <<>>
    ELSE LET line == Trim(Head(lines))
         IN  IF line # <<>> /\ Truthy(HeadLineMatch(line))
             THEN <<HeadLineMatch(line)>> \o RawHeads(Tail(lines))
             ELSE RawHeads(Tail(lines))

\* selected?.map((i) => i.label) for the items at the positions in sel
RECURSIVE PickedLabels(_, _, _)
PickedLabels(items, i, sel) ==
    IF i > Len(items) THEN <<>>
    ELSE IF i \in sel THEN <<items[i]>> \o PickedLabels(items, i + 1, sel)
    ELSE PickedLabels(items, i + 1, sel)

\* `heads -v` has closed: mergeBranches lists the heads, the user picks some
\* and types a message, and `merge` runs
HeadsClose ==
    /\ pc = "heads"
    /\ proc.state = "running"
    /\ \E code \in CloseCodes(proc) :
         LET r == ExecResult(code, stdout, stderr)
             rawHeads == IF r.state = "resolved"
                         THEN RawHeads(SplitNewline(r.payload)) ELSE <<>>
             heads == {rawHeads[i] : i \in 1..Len(rawHeads)}
         IN  /\ settled' = r
             /\ IF r.state = "rejected"
                THEN /\ notifications' =
                          showErrorNotification(notifications, FailureText(cmd), r.payload)
                     /\ logLines' = showErrorLogLine(logLines, FailureText(cmd), r.payload)
                     /\ proc' = NoProc
                     /\ pc' = "done"
                ELSE IF Cardinality(heads) < 2
                THEN /\ notifications' =
                          Append(notifications,
                                 Notification("info", "Nothing to merge: less than two heads",
                                              <<>>))
                     /\ proc' = NoProc
                     /\ pc' = "done"
                     /\ UNCHANGED logLines
                ELSE \E dismissed \in BOOLEAN, sel \in SUBSET (1..Len(rawHeads)),
                        message \in {Undefined, <<>>, MsgUsers} :
                       LET picks == PickedLabels(rawHeads, 1, sel)
                       IN  IF dismissed \/ Len(picks) < 2
                           THEN /\ proc' = NoProc
                                /\ pc' = "done"
                                /\ UNCHANGED <<notifications, logLines>>
                           ELSE /\ proc' =
                                     Spawned(buildCommand(
                                       <<ArgMerge>> \o picks
                                         \o <<ArgMessage, IF Truthy(message) THEN message
                                                          ELSE MergeHeadsText>>))
                                /\ logLines' = Append(logLines, ExecutingLine)
                                /\ pc' = "run"
                                /\ UNCHANGED notifications
    /\ stdout' = <<>>
    /\ stderr' = <<>>
    /\ UNCHANGED <<cmd, workspace, historyResult, currentResult, migrations, walker,
                   applied, walkCount, graph, consoleErrors, calls>>
    /\ inFlight' = Launch(Reap(inFlight, proc), proc')
    /\ UNCHANGED <<config, iniVars>>

\* the two messages of the panel whose handlers may overlap
Writers == {"first", "second"}

NoOp ==
    [op |-> "none", pc |-> "idle", base |-> <<>>, raw |-> <<>>, text |-> <<>>,
     enabled |-> FALSE, width |-> 0, wrote |-> 0, note |-> "", posted |-> <<>>]

\* the two webviews of the extension
Views == {"graph", "settings"}

\* a view that was never shown: no handle, no panel created
\* panel: this.panel (0 for undefined, otherwise the number of the panel);
\* loading: the panel whose show() awaits the HTML template; listening: the
\* panels with an onDidDispose handler; disposed: the panels closed so far;
\* created: the panels created so far; last: what the last show() did
NoView ==
    [panel |-> 0, loading |-> 0, listening |-> {}, disposed |-> {}, created |-> 0,
     last |-> "none"]

\* no file event has been handled
WatchIdle ==
    /\ autoRefresh = TRUE
    /\ treeFires = 0
    /\ watchLog = <<>>

\* no view has been shown
PanelIdle == views = [v \in Views |-> NoView]

\* no function of AlembicUtils has been called
UtilIdle ==
    /\ utilPc = "off"
    /\ utilIn = <<>>
    /\ utilOut = <<>>

HostIdle == WatchIdle /\ PanelIdle /\ UtilIdle

\* the settings editor has handled no message
EdIdle ==
    /\ iniFile = <<>>
    /\ edOps = [w \in Writers |-> NoOp]
    /\ edSettings = [sequentialRevIdEnabled |-> FALSE, sequentialRevIdWidth |-> 4]
    /\ HostIdle

(***************************************************************************)
(* The specification of the commands.                                      *)
(***************************************************************************)
IniIdle ==
    /\ iniPc = "off"
    /\ iniContent = <<>>
    /\ iniSection = <<>>
    /\ iniUpdates = <<>>
    /\ iniOnce = <<>>
    /\ iniTwice = <<>>
    /\ iniParsed = <<>>
    /\ EdIdle

CmdIdle ==
    /\ cmd = "none"
    /\ pc = "idle"
    /\ workspace = TRUE
    /\ proc = NoProc
    /\ stdout = <<>>
    /\ stderr = <<>>
    /\ settled = NoResult
    /\ historyResult = <<>>
    /\ currentResult = <<>>
    /\ migrations = <<>>
    /\ walker = Undefined
    /\ applied = {}
    /\ walkCount = 0
    /\ graph = EmptyGraph
    /\ notifications = <<>>
    /\ logLines = <<>>
    /\ consoleErrors = <<>>
    /\ calls = <<>>
    /\ config = [alembicPath |-> AlembicPath, configFile |-> ConfigFile]
    /\ inFlight = {}

Init == CmdIdle /\ IniIdle

Next ==
    \/ \E c \in {"getChildren", "updateGraph"} : StartGetMigrations(c)
    \/ \E c \in UserCommands : StartCommand(c)
    \/ \E c \in {"initAlembic", "createMigration", "upgrade", "downgrade",
                 "mergeBranches"} : RunClose(c)
    \/ ShowHistoryClose
    \/ VersionClose
    \/ TemplatesClose
    \/ HeadsClose
    \/ StdoutData
    \/ StderrData
    \/ ShellCannotLaunch
    \/ ConfigurationChanged
    \/ HistoryClose
    \/ CurrentClose
    \/ WalkStep
    \/ WalkEnd

Spec == Init /\ [][Next]_vars

(***************************************************************************)
(* utils/iniEditor.ts: updateIniSection                                    *)
(***************************************************************************)
\* String.prototype.split(/\r?\n/)
SplitLines(content) ==
    LET parts == SplitNewline(content)
        strip(l) == IF l # <<>> /\ l[Len(l)] = "\r" THEN SubSeq(l, 1, Len(l) - 1) ELSE l
    IN  [i \in 1..Len(parts) |-> IF i < Len(parts) THEN strip(parts[i]) ELSE parts[i]]

\* Array.prototype.join("\n")
RECURSIVE JoinNewline(_)
JoinNewline(lines) ==
    IF lines = <<>> THEN <<>>
    ELSE IF Len(lines) = 1 THEN lines[1]
    ELSE lines[1] \o <<"\n">> \o JoinNewline(Tail(lines))

\* new RegExp(`^\\s*${escapeRegex(k)}\\s*=.*$`).test(line)
KeyLineMatch(line, k) ==
    \E i \in 0..Len(line) :
      /\ AllIn(line, 1, i, SpaceChars)
      /\ i + Len(k) <= Len(line)
      /\ SubSeq(line, i + 1, i + Len(k)) = k
      /\ \E e \in (i + Len(k) + 1)..Len(line) :
           /\ AllIn(line, i + Len(k) + 1, e - 1, SpaceChars)
           /\ line[e] = "="
           /\ \A n \in (e + 1)..Len(line) : line[n] \notin LineTerminators

SectionHeader(section) == <<"[">> \o section \o <<"]">>

\* `${k} = ${v}`
KeyValueLine(entry) == entry[1] \o <<" ", "=", " ">> \o entry[2]

\* index of the line where the scan sets inSection (0 when it never does)
SectionStart(lines, header) ==
    LET hits == {i \in 1..Len(lines) :
                   StartsWith(Trim(lines[i]), <<"[">>) /\ Trim(lines[i]) = header}
    IN  IF hits = {} THEN 0 ELSE MinOf(hits)

\* faulty variant: the scan never breaks, the section runs to the last line
SectionEnd_ToLastLine(lines, start, header) == Len(lines) + 1

\* index of the line where the scan breaks (one past the last line when it does not)
SectionEnd(lines, start, header) ==
    LET hits == {i \in (start + 1)..Len(lines) :
                   StartsWith(Trim(lines[i]), <<"[">>) /\ Trim(lines[i]) # header}
    IN  IF hits = {} THEN Len(lines) + 1 ELSE MinOf(hits)

\* the first entry of updates whose expression matches the line (0 when none does)
FirstMatchingKey(line, updates) ==
    LET hits == {n \in 1..Len(updates) : KeyLineMatch(line, updates[n][1])}
    IN  IF hits = {} THEN 0 ELSE MinOf(hits)

\* the rewriting loop over the lines of the section
RewriteSection(lines, start, end, updates) ==
    [i \in 1..Len(lines) |->
       IF i > start /\ i < end /\ FirstMatchingKey(lines[i], updates) # 0
       THEN KeyValueLine(updates[FirstMatchingKey(lines[i], updates)])
       ELSE lines[i]]

\* updatedKeys after the rewriting loop
UpdatedKeys(lines, start, end, updates) ==
    {FirstMatchingKey(lines[i], updates) : i \in (start + 1)..(end - 1)} \ {0}

\* faulty variant: every entry of updates is inserted, updated or not
ToInsert_All(updates, n, done) ==
    [m \in 1..Len(updates) |-> KeyValueLine(updates[m])]

\* toInsert: the entries whose key was not updated, in the order of updates
RECURSIVE ToInsert(_, _, _)
ToInsert(updates, n, done) ==
    IF n > Len(updates) THEN <<>>
    ELSE IF n \in done THEN ToInsert(updates, n + 1, done)
    ELSE <<KeyValueLine(updates[n])>> \o ToInsert(updates, n + 1, done)

\* faulty variant: the appended block has no key lines
NewSectionLines_HeaderOnly(header, updates) == <<<<>>, header>>

\* the block appended when the section does not exist
NewSectionLines(header, updates) ==
    <<<<>>, header>> \o [n \in 1..Len(updates) |-> KeyValueLine(updates[n])]

updateIniSection(content, section, updates) ==
    LET lines == SplitLines(content)
        header == SectionHeader(section)
        start == SectionStart(lines, header)
        end == SectionEnd(lines, start, header)
        rewritten == RewriteSection(lines, start, end, updates)
        missing == ToInsert(updates, 1, UpdatedKeys(lines, start, end, updates))
    IN  IF start = 0
        THEN content
               \o (IF content # <<>> /\ content[Len(content)] = "\n" THEN <<>> ELSE <<"\n">>)
               \o JoinNewline(NewSectionLines(header, updates))
               \o <<"\n">>
        ELSE JoinNewline(SubSeq(rewritten, 1, end - 1) \o missing
                           \o SubSeq(rewritten, end, Len(rewritten)))

(***************************************************************************)
(* parseIni (utils/iniEditor.ts): IniData is a function from section names *)
(* to functions from keys to values.                                       *)
(***************************************************************************)
\* line.match(/^\[(.+?)\]$/) on the trimmed line
IniSectionMatch(line) ==
    /\ Len(line) >= 3
    /\ line[1] = "["
    /\ line[Len(line)] = "]"
    /\ \A n \in 2..(Len(line) - 1) : line[n] \notin LineTerminators

\* sectionMatch[1]
IniSectionName(line) == SubSeq(line, 2, Len(line) - 1)

\* index of the "=" that rawLine.match(/^\s*([^=]+?)\s*=\s*(.*)$/) stops at:
\* the first one of the line (0 when the expression does not match)
IniKvSplit(rawLine) ==
    LET eqs == {e \in 1..Len(rawLine) : rawLine[e] = "="}
        e == MinOf(eqs)
    IN  IF eqs = {} THEN 0
        ELSE IF e >= 2
                /\ \A n \in (e + 1 + RunLen(rawLine, e + 1, SpaceChars))..Len(rawLine) :
                     rawLine[n] \notin LineTerminators
        THEN e ELSE 0

\* faulty variant: the first value of a key is kept
IniPut_KeepFirst(data, section, key, value) ==
    LET old == IF section \in DOMAIN data THEN data[section] ELSE <<>>
    IN  (section :> (old @@ (key :> value))) @@ data

\* if (!data[currentSection]) data[currentSection] = {};
\* data[currentSection][key] = value
IniPut(data, section, key, value) ==
    LET old == IF section \in DOMAIN data THEN data[section] ELSE <<>>
    IN  (section :> ((key :> value) @@ old)) @@ data

\* if (!data[currentSection]) data[currentSection] = {}
IniOpenSection(data, section) ==
    IF section \in DOMAIN data THEN data ELSE (section :> <<>>) @@ data

\* the loop `for (const rawLine of lines)`, from line i on
RECURSIVE ParseIniLines(_, _, _, _)
ParseIniLines(lines, i, data, currentSection) ==
    IF i > Len(lines) THEN data
    ELSE LET rawLine == lines[i]
             line == Trim(rawLine)
             e == IniKvSplit(rawLine)
         IN  IF line = <<>> \/ StartsWith(line, <<";">>) \/ StartsWith(line, <<"#">>)
             THEN ParseIniLines(lines, i + 1, data, currentSection)
             ELSE IF IniSectionMatch(line)
             THEN ParseIniLines(lines, i + 1,
                                IniOpenSection(data, IniSectionName(line)),
                                IniSectionName(line))
             ELSE IF e # 0
             THEN ParseIniLines(lines, i + 1,
                                IniPut(data, currentSection,
                                       Trim(SubSeq(rawLine, 1, e - 1)),
                                       Trim(SubSeq(rawLine, e + 1, Len(rawLine)))),
                                currentSection)
             ELSE ParseIniLines(lines, i + 1, data, currentSection)

parseIni(content) == ParseIniLines(SplitLines(content), 1, <<>>, <<>>)

(***************************************************************************)
(* The INI texts, sections and updates the patcher is applied to.          *)
(***************************************************************************)
SectionAlembic == <<"a", "l", "e", "m", "b", "i", "c">>

KeyK == <<"k">>

KeyJ == <<"j">>

IniLinePool ==
    { SectionHeader(SectionAlembic),
      <<"[", "p", "o", "s", "t", "]">>,
      <<"k", " ", "=", " ", "0">>,
      <<"#", " ", "k", " ", "=", " ", "0">>,
      <<"j", "=", "0">>,
      <<>> }

IniLineSeqs == UNION { [1..n -> IniLinePool] : n \in 0..MaxIniLines }

\* the lines joined with the line ending eol, with or without a final one
IniText(lines, eol, final) ==
    LET RECURSIVE Join(_)
        Join(ls) == IF ls = <<>> THEN <<>>
                    ELSE IF Len(ls) = 1 THEN ls[1]
                    ELSE ls[1] \o eol \o Join(Tail(ls))
    IN  Join(lines) \o (IF final /\ lines # <<>> THEN eol ELSE <<>>)

IniContents ==
    { IniText(ls, eol, final) :
        ls \in IniLineSeqs, eol \in {<<"\n">>, <<"\r", "\n">>}, final \in BOOLEAN }

IniUpdateChoices ==
    { <<>>,
      << <<KeyK, <<"v">>>> >>,
      << <<KeyJ, <<"w">>>> >>,
      << <<KeyK, <<"v">>>>, <<KeyJ, <<"w">>>> >> }

(***************************************************************************)
(* The specification of the INI patcher: updateIniSection is applied to a  *)
(* text, and then to its own output.                                       *)
(***************************************************************************)
InitIni ==
    /\ CmdIdle
    /\ iniPc = "start"
    /\ iniContent \in IniContents
    /\ iniSection = SectionAlembic
    /\ iniUpdates \in IniUpdateChoices
    /\ iniOnce = <<>>
    /\ iniTwice = <<>>
    /\ iniParsed = <<>>
    /\ EdIdle

ApplyOnce ==
    /\ iniPc = "start"
    /\ iniOnce' = updateIniSection(iniContent, iniSection, iniUpdates)
    /\ iniPc' = "once"
    /\ UNCHANGED <<iniContent, iniSection, iniUpdates, iniTwice, iniParsed>>
    /\ UNCHANGED <<cmdVars, edVars, hostVars>>

ApplyTwice ==
    /\ iniPc = "once"
    /\ iniTwice' = updateIniSection(iniOnce, iniSection, iniUpdates)
    /\ iniPc' = "twice"
    /\ UNCHANGED <<iniContent, iniSection, iniUpdates, iniOnce, iniParsed>>
    /\ UNCHANGED <<cmdVars, edVars, hostVars>>

NextIni == ApplyOnce \/ ApplyTwice

SpecIni == InitIni /\ [][NextIni]_vars

(***************************************************************************)
(* The specification of the INI parser: parseIni is applied to a text.     *)
(***************************************************************************)
ParseLinePool ==
    { SectionHeader(SectionAlembic),
      <<"[", "p", "o", "s", "t", "]">>,
      <<"k", " ", "=", " ", "0">>,
      <<" ", "k", "=", "1", " ">>,
      <<"j", "=", "0">>,
      <<"#", " ", "k", " ", "=", " ", "0">>,
      <<";", "k", "=", "2">>,
      <<>> }

ParseContents ==
    { IniText(ls, eol, final) :
        ls \in UNION { [1..n -> ParseLinePool] : n \in 0..MaxIniLines },
        eol \in {<<"\n">>, <<"\r", "\n">>}, final \in BOOLEAN }

InitParse ==
    /\ CmdIdle
    /\ iniPc = "start"
    /\ iniContent \in ParseContents
    /\ iniSection = <<>>
    /\ iniUpdates = <<>>
    /\ iniOnce = <<>>
    /\ iniTwice = <<>>
    /\ iniParsed = <<>>
    /\ EdIdle

ParseContent ==
    /\ iniPc = "start"
    /\ iniParsed' = parseIni(iniContent)
    /\ iniPc' = "parsed"
    /\ UNCHANGED <<iniContent, iniSection, iniUpdates, iniOnce, iniTwice>>
    /\ UNCHANGED <<cmdVars, edVars, hostVars>>

NextParse == ParseContent

SpecParse == InitParse /\ [][NextParse]_vars

(***************************************************************************)
(* The settings editor (webviews/settingsEditor.ts): the messages `save`   *)
(* and `applyRevisionStrategy` of the panel rewrite the configuration     *)
(* file.  Two messages are handled, and their handlers may overlap at      *)
(* every await.                                                            *)
(***************************************************************************)
\* a file in which the section [alembic] is opened a second time
RepeatedSectionFile ==
    <<"[", "a", "l", "e", "m", "b", "i", "c", "]", "\n", "s", "c", "r", "i",
      "p", "t", "_", "l", "o", "c", "a", "t", "i", "o", "n", " ", "=", " ",
      "a", "\n", "[", "p", "o", "s", "t", "]", "\n", "x", " ", "=", " ", "1",
      "\n", "[", "a", "l", "e", "m", "b", "i", "c", "]", "\n", "s", "c", "r",
      "i", "p", "t", "_", "l", "o", "c", "a", "t", "i", "o", "n", " ", "=",
      " ", "b", "\n">>

\* the file on disk before the messages arrive (or no file)
EditorFiles ==
    { Undefined,
      <<"[", "a", "l", "e", "m", "b", "i", "c", "]", "\n", "s", "c", "r",
          "i", "p", "t", "_", "l", "o", "c", "a", "t", "i", "o", "n", " ",
          "=", " ", "a", "\n", "#", " ", "n", "o", "t", "e", "\n", "[", "p",
          "o", "s", "t", "]", "\n", "x", " ", "=", " ", "1", "\n">>,
      <<"[", "p", "o", "s", "t", "]", "\r", "\n", "x", " ", "=", " ", "1",
          "\r", "\n">>,
      RepeatedSectionFile }

\* message.payload.content of `save`
SaveContents ==
    { <<"[", "a", "l", "e", "m", "b", "i", "c", "]", "\n", "f", "i", "l",
        "e", "_", "t", "e", "m", "p", "l", "a", "t", "e", " ", "=", " ", "s",
        "\n">> }

\* message.payload of `applyRevisionStrategy`
ApplyPayloads ==
    { [template |-> Undefined, seqEnabled |-> TRUE, seqWidth |-> 0,
       scriptLocation |-> Undefined, versionLocations |-> Undefined,
       timezone |-> Undefined, truncateSlug |-> Undefined],
      [template |-> <<"t">>, seqEnabled |-> FALSE, seqWidth |-> 3,
       scriptLocation |-> <<"d", "b">>, versionLocations |-> <<"v">>,
       timezone |-> <<>>, truncateSlug |-> <<"9">>] }

\* `base`: the keys applyRevisionStrategy sets, in insertion order
StrategyBase(payload) ==
    << <<<<"s", "c", "r", "i", "p", "t", "_", "l", "o", "c", "a", "t", "i", "o",
        "n">>,
         IF Truthy(payload.scriptLocation) THEN payload.scriptLocation
         ELSE <<"a", "l", "e", "m", "b", "i", "c">>>>,
       <<<<"v", "e", "r", "s", "i", "o", "n", "_", "l", "o", "c", "a", "t",
           "i", "o", "n", "s">>,
         IF Truthy(payload.versionLocations) THEN payload.versionLocations
         ELSE <<"a", "l", "e", "m", "b", "i", "c", "/", "v", "e", "r", "s", "i",
             "o", "n", "s">>>>,
       <<<<"f", "i", "l", "e", "_", "t", "e", "m", "p", "l", "a", "t", "e">>,
         IF Truthy(payload.template) THEN payload.template
         ELSE <<"%", "(", "r", "e", "v", ")", "s", "_", "%", "(", "s", "l", "u",
             "g", ")", "s">>>> >>
      \o (IF payload.timezone # Undefined
          THEN << <<<<"t", "i", "m", "e", "z", "o", "n", "e">>, payload.timezone>> >>
          ELSE <<>>)
      \o (IF Truthy(payload.truncateSlug)
          THEN << <<<<"t", "r", "u", "n", "c", "a", "t", "e", "_", "s", "l", "u",
              "g", "_", "l", "e", "n", "g", "t", "h">>,
                    payload.truncateSlug>> >>
          ELSE <<>>)

\* writes of the file completed so far
WritesDone == Cardinality({w \in Writers : edOps[w].wrote > 0})

\* faulty variant: a writer whose read is stale leaves the newer content alone
WrittenFile_UnlessStale(file, o) ==
    IF o.op = "apply" /\ file # o.raw THEN file ELSE o.text

\* vscode.workspace.fs.writeFile(uri, Buffer.from(text, "utf8")): the file
\* becomes the writer's text, whatever it holds
WrittenFile(file, o) == o.text

\* the `save` message arrives: saveIni asks for the write of payload.content
SaveStart(w) ==
    /\ workspace
    /\ edOps[w].op = "none"
    /\ \E content \in SaveContents :
         edOps' = [edOps EXCEPT ![w] = [NoOp EXCEPT !.op = "save", !.pc = "write",
                                                     !.text = content]]
    /\ UNCHANGED <<iniFile, edSettings>>
    /\ UNCHANGED <<cmdVars, iniFnVars, hostVars>>

\* the `applyRevisionStrategy` message arrives: the handler asks for the file
ApplyStart(w) ==
    /\ workspace
    /\ edOps[w].op = "none"
    /\ \E payload \in ApplyPayloads :
         edOps' = [edOps EXCEPT ![w] =
                     [NoOp EXCEPT !.op = "apply", !.pc = "read",
                                  !.base = StrategyBase(payload),
                                  !.enabled = payload.seqEnabled,
                                  !.width = IF payload.seqWidth = 0 THEN 4
                                            ELSE payload.seqWidth]]
    /\ UNCHANGED <<iniFile, edSettings>>
    /\ UNCHANGED <<cmdVars, iniFnVars, hostVars>>

\* readFile settles: `updated` is computed from what the file holds now, or
\* the catch block reports that there is no file
ApplyRead(w) ==
    /\ edOps[w].pc = "read"
    /\ edOps' = [edOps EXCEPT ![w] =
                   IF iniFile = Undefined
                   THEN [@ EXCEPT !.pc = "done",
                                  !.note = "Failed to apply revision strategy"]
                   ELSE [@ EXCEPT !.pc = "settings", !.raw = iniFile,
                                  !.text = updateIniSection(iniFile, SectionAlembic,
                                                            edOps[w].base)]]
    /\ UNCHANGED <<iniFile, edSettings>>
    /\ UNCHANGED <<cmdVars, iniFnVars, hostVars>>

\* the two updateConfiguration calls settle (or one is refused): the handler
\* asks for the write of `updated`
ApplySettings(w) ==
    /\ edOps[w].pc = "settings"
    /\ \E ok \in BOOLEAN :
         IF ok
         THEN /\ edSettings' = [sequentialRevIdEnabled |-> edOps[w].enabled,
                                sequentialRevIdWidth |-> edOps[w].width]
              /\ edOps' = [edOps EXCEPT ![w].pc = "write"]
         ELSE /\ edOps' = [edOps EXCEPT ![w].pc = "done",
                                        ![w].note = "Failed to apply revision strategy"]
              /\ UNCHANGED edSettings
    /\ UNCHANGED iniFile
    /\ UNCHANGED <<cmdVars, iniFnVars, hostVars>>

\* writeFile settles: the file is replaced, the handler notifies and, for
\* applyRevisionStrategy, posts the new text and its parse to the panel
FileWritten(w) ==
    /\ edOps[w].pc = "write"
    /\ iniFile' = WrittenFile(iniFile, edOps[w])
    /\ edOps' = [edOps EXCEPT ![w] =
                   [@ EXCEPT !.pc = "done",
                             !.wrote = WritesDone + 1,
                             !.note = IF edOps[w].op = "save" THEN "alembic.ini saved"
                                      ELSE "Revision strategy applied to alembic.ini",
                             !.posted = IF edOps[w].op = "save" THEN <<>>
                                        ELSE parseIni(edOps[w].text)]]
    /\ UNCHANGED edSettings
    /\ UNCHANGED <<cmdVars, iniFnVars, hostVars>>

InitEditor ==
    /\ CmdIdle
    /\ iniPc = "off"
    /\ iniContent \in EditorFiles
    /\ iniSection = <<>>
    /\ iniUpdates = <<>>
    /\ iniOnce = <<>>
    /\ iniTwice = <<>>
    /\ iniParsed = <<>>
    /\ iniFile = iniContent
    /\ edOps = [w \in Writers |-> NoOp]
    /\ edSettings = [sequentialRevIdEnabled |-> FALSE, sequentialRevIdWidth |-> 4]
    /\ HostIdle

NextEditor ==
    \/ \E w \in Writers : SaveStart(w)
    \/ \E w \in Writers : ApplyStart(w)
    \/ \E w \in Writers : ApplyRead(w)
    \/ \E w \in Writers : ApplySettings(w)
    \/ \E w \in Writers : FileWritten(w)

SpecEditor == InitEditor /\ [][NextEditor]_vars

(***************************************************************************)
(* The specification of the file watcher and the configuration watcher     *)
(* (activate): events on **/alembic/**/*.py and changes of the settings.   *)
(***************************************************************************)
\* the events of vscode.workspace.createFileSystemWatcher
FileEvents == {"create", "delete", "change"}

\* faulty variant: a deleted file refreshes the list whatever the setting
WatcherRefreshes_DeleteAlways(event, setting) == setting \/ event = "delete"

\* `if (ConfigurationManager.getConfiguration().autoRefresh)` of the three
\* handlers: whether the event calls migrationProvider.refresh()
WatcherRefreshes(event, setting) == setting

\* watcher.onDidCreate / onDidDelete / onDidChange
FileEvent(event) ==
    /\ Len(watchLog) < MaxEvents
    /\ watchLog' = Append(watchLog, event)
    /\ treeFires' = IF WatcherRefreshes(event, autoRefresh) THEN treeFires + 1
                    ELSE treeFires
    /\ UNCHANGED autoRefresh
    /\ UNCHANGED <<cmdVars, iniFnVars, edVars, views, utilVars>>

\* a setting of the section `alembic` is changed (autoRefresh to `setting`):
\* the configuration watcher refreshes the list
SettingsChanged(setting) ==
    /\ Len(watchLog) < MaxEvents
    /\ autoRefresh' = setting
    /\ watchLog' = Append(watchLog, "config")
    /\ treeFires' = treeFires + 1
    /\ UNCHANGED <<cmdVars, iniFnVars, edVars, views, utilVars>>

InitWatcher ==
    /\ CmdIdle
    /\ iniPc = "off"
    /\ iniContent = <<>>
    /\ iniSection = <<>>
    /\ iniUpdates = <<>>
    /\ iniOnce = <<>>
    /\ iniTwice = <<>>
    /\ iniParsed = <<>>
    /\ iniFile = <<>>
    /\ edOps = [w \in Writers |-> NoOp]
    /\ edSettings = [sequentialRevIdEnabled |-> FALSE, sequentialRevIdWidth |-> 4]
    /\ autoRefresh \in BOOLEAN
    /\ treeFires = 0
    /\ watchLog = <<>>
    /\ PanelIdle
    /\ UtilIdle

NextWatcher ==
    \/ \E event \in FileEvents : FileEvent(event)
    \/ \E setting \in BOOLEAN : SettingsChanged(setting)

SpecWatcher == InitWatcher /\ [][NextWatcher]_vars

(***************************************************************************)
(* The specification of the functions of AlembicUtils: one function is     *)
(* applied to arguments drawn from short texts and from texts around the   *)
(* default limits.                                                         *)
(***************************************************************************)
UtilChars == {"a", "B", "1", " ", "&"}

RECURSIVE TextsOfLength(_)
TextsOfLength(n) ==
    IF n = 0 THEN {<<>>}
    ELSE {<<c>> \o t : c \in UtilChars, t \in TextsOfLength(n - 1)}

ShortTexts == UNION {TextsOfLength(n) : n \in 0..MaxTextLen}

\* the message of the test `should sanitize message for filename`
ExampleMessage ==
    <<"A", "d", "d", " ", "U", "s", "e", "r", " ", "T", "a", "b", "l", "e",
      " ", "&", " ", "R", "e", "l", "a", "t", "i", "o", "n", "s", "!">>

\* a text of n characters
Padding(n) == [k \in 1..n |-> IF k % 2 = 1 THEN "Z" ELSE "9"]

\* the texts: short ones, and ones around the numeric arguments and the
\* limits of 8 and 50 characters
UtilTexts ==
    ShortTexts \cup {Padding(n) \o t : n \in {MaxArg - 1, ShortHashLength - 1,
                                              FormatMaxLength - 1},
                                       t \in ShortTexts}
               \cup {ExampleMessage}

\* the numeric argument: small values, and the defaults
UtilNumbers == (0..MaxArg) \cup {ShortHashLength, FormatMaxLength}

\* a revision id as the tool prints it in full
LongHash ==
    <<"a", "b", "c", "d", "1", "2", "3", "4", "5", "6", "7", "8", "9", "0",
      "e", "f">>

\* revision ids shorter than, as long as and longer than the short form
HashTexts == {SubSeq(LongHash, 1, n) : n \in 1..Len(LongHash)}

InitUtils ==
    /\ CmdIdle
    /\ iniPc = "off"
    /\ iniContent = <<>>
    /\ iniSection = <<>>
    /\ iniUpdates = <<>>
    /\ iniOnce = <<>>
    /\ iniTwice = <<>>
    /\ iniParsed = <<>>
    /\ iniFile = <<>>
    /\ edOps = [w \in Writers |-> NoOp]
    /\ edSettings = [sequentialRevIdEnabled |-> FALSE, sequentialRevIdWidth |-> 4]
    /\ WatchIdle
    /\ PanelIdle
    /\ utilPc = "start"
    /\ \/ \E fn \in {"formatMessage", "getShortHash", "sanitizeMessage"},
             text \in UtilTexts, n \in UtilNumbers :
            /\ fn = "sanitizeMessage" => n = 0
            /\ utilIn = [fn |-> fn, text |-> text, n |-> n, showFullHash |-> FALSE]
       \/ \E text \in HashTexts, showFullHash \in BOOLEAN :
            utilIn = [fn |-> "parseMigrations", text |-> text, n |-> 0,
                      showFullHash |-> showFullHash]
    /\ utilOut = <<>>

CallFormatMessage ==
    /\ utilPc = "start"
    /\ utilIn.fn = "formatMessage"
    /\ utilOut' = formatMessage(utilIn.text, utilIn.n)
    /\ utilPc' = "done"
    /\ UNCHANGED utilIn
    /\ UNCHANGED <<cmdVars, iniFnVars, edVars, watchVars, views>>

CallGetShortHash ==
    /\ utilPc = "start"
    /\ utilIn.fn = "getShortHash"
    /\ utilOut' = getShortHash(utilIn.text, utilIn.n)
    /\ utilPc' = "done"
    /\ UNCHANGED utilIn
    /\ UNCHANGED <<cmdVars, iniFnVars, edVars, watchVars, views>>

CallSanitizeMessage ==
    /\ utilPc = "start"
    /\ utilIn.fn = "sanitizeMessage"
    /\ utilOut' = sanitizeMessage(utilIn.text)
    /\ utilPc' = "done"
    /\ UNCHANGED utilIn
    /\ UNCHANGED <<cmdVars, iniFnVars, edVars, watchVars, views>>

\* parseMigrations on a history of one line whose revision id is the text
CallParseMigrations ==
    /\ utilPc = "start"
    /\ utilIn.fn = "parseMigrations"
    /\ utilOut' = parseMigrations(HistLine(IdA, utilIn.text, MsgInit) \o <<"\n">>,
                                  IdB, utilIn.showFullHash)
    /\ utilPc' = "done"
    /\ UNCHANGED utilIn
    /\ UNCHANGED <<cmdVars, iniFnVars, edVars, watchVars, views>>

NextUtils ==
    \/ CallFormatMessage
    \/ CallGetShortHash
    \/ CallSanitizeMessage
    \/ CallParseMigrations

SpecUtils == InitUtils /\ [][NextUtils]_vars

(***************************************************************************)
(* The specification of the webview panels: MigrationGraphWebview.show and *)
(* AlembicIniEditorWebview.show, and the user closing a panel.             *)
(***************************************************************************)
\* the panels of a view that exist and are not disposed
LivePanels(view) == (1..view.created) \ view.disposed

\* show() is called: a stored handle is revealed (which fails on a disposed
\* panel), otherwise a panel is created and show() awaits the HTML template
ShowCalled(v) ==
    /\ views' = [views EXCEPT ![v] =
                   IF views[v].panel # 0
                   THEN [@ EXCEPT !.last = IF views[v].panel \in views[v].disposed
                                           THEN "revealFailed" ELSE "revealed"]
                   ELSE [@ EXCEPT !.panel = views[v].created + 1,
                                  !.loading = views[v].created + 1,
                                  !.created = views[v].created + 1,
                                  !.last = "created"]]
    /\ views[v].panel = 0 => views[v].created < MaxPanels
    /\ UNCHANGED <<cmdVars, iniFnVars, edVars, watchVars, utilVars>>

\* the template has been read (or reading it has failed): on success the
\* HTML is set and the message and dispose handlers are registered; a
\* handler registered on a panel that is already disposed is never called
TemplateLoaded(v) ==
    /\ views[v].loading # 0
    /\ \E read \in BOOLEAN :
         views' = [views EXCEPT ![v] =
                     IF read /\ views[v].loading \notin views[v].disposed
                     THEN [@ EXCEPT !.loading = 0,
                                    !.listening = @ \cup {views[v].loading}]
                     ELSE [@ EXCEPT !.loading = 0]]
    /\ UNCHANGED <<cmdVars, iniFnVars, edVars, watchVars, utilVars>>

\* the user closes a panel: it is disposed and, when show() has registered
\* the handler, `this.panel = undefined`
PanelClosed(v) ==
    /\ \E id \in LivePanels(views[v]) :
         views' = [views EXCEPT ![v] =
                     [@ EXCEPT !.disposed = @ \cup {id},
                               !.panel = IF id \in views[v].listening THEN 0
                                         ELSE views[v].panel]]
    /\ UNCHANGED <<cmdVars, iniFnVars, edVars, watchVars, utilVars>>

InitPanels ==
    /\ CmdIdle
    /\ iniPc = "off"
    /\ iniContent = <<>>
    /\ iniSection = <<>>
    /\ iniUpdates = <<>>
    /\ iniOnce = <<>>
    /\ iniTwice = <<>>
    /\ iniParsed = <<>>
    /\ iniFile = <<>>
    /\ edOps = [w \in Writers |-> NoOp]
    /\ edSettings = [sequentialRevIdEnabled |-> FALSE, sequentialRevIdWidth |-> 4]
    /\ WatchIdle
    /\ UtilIdle
    /\ PanelIdle

NextPanels ==
    \/ \E v \in Views : ShowCalled(v)
    \/ \E v \in Views : TemplateLoaded(v)
    \/ \E v \in Views : PanelClosed(v)

SpecPanels == InitPanels /\ [][NextPanels]_vars

(***************************************************************************)
(* Properties of getMigrations, parseMigrations and getMigrationGraph.     *)
(***************************************************************************)
\* getMigrations has returned (with the parsed list, or [] after a failure)
Resolved == pc = "done" /\ cmd \in {"getChildren", "updateGraph"}

\* parseMigrations has run in the action in progress
Parsed ==
    /\ cmd \in {"getChildren", "updateGraph"}
    /\ pc \in {"walk", "done"}
    /\ settled.state = "resolved"

UniqueIds(list) ==
    \A i, j \in 1..Len(list) : list[i].id = list[j].id => i = j

CurrentCount(list) == Cardinality({i \in 1..Len(list) : list[i].isCurrent})

\* the downRevision recorded for an id: that of the revision with this id
\* (of the last one, when the list repeats the id), undefined for an unlisted id
RecordedDown(list, id) ==
    LET at == {i \in 1..Len(list) : list[i].id = id}
    IN  IF at = {} THEN Undefined
        ELSE list[CHOOSE i \in at : \A j \in at : j <= i].downRevision

\* the ids reached from the ids in S by following downRevision pointers
RECURSIVE AncestorClosure(_, _)
AncestorClosure(list, S) ==
    LET step == S \cup {RecordedDown(list, id) :
                          id \in {x \in S : Truthy(RecordedDown(list, x))}}
    IN  IF step = S THEN S ELSE AncestorClosure(list, step)

\* the ids visited from the current revision along downRevision (none when no
\* revision is current)
AncestorChain(list) ==
    AncestorClosure(list, {list[i].id : i \in {j \in 1..Len(list) : list[j].isCurrent}})

\* C1: in every list getMigrations returns, the applied revisions are exactly
\* those visited from the current revision by following downRevision, every
\* other revision is not applied, and none is applied when none is current.
C1_AppliedSet ==
    Resolved =>
      /\ \A i \in 1..Len(migrations) :
           migrations[i].isApplied <=> migrations[i].id \in AncestorChain(migrations)
      /\ CurrentCount(migrations) = 0 =>
           \A i \in 1..Len(migrations) : ~migrations[i].isApplied

\* a chain of two listed revisions, the older applied and not current
C1_Witness ==
    /\ Resolved
    /\ UniqueIds(migrations)
    /\ walkCount >= 2
    /\ \E i, j \in 1..Len(migrations) :
         /\ migrations[i].isCurrent
         /\ migrations[i].downRevision = migrations[j].id
         /\ migrations[j].isApplied
         /\ ~migrations[j].isCurrent

\* C2: the walk is bounded by the number of revisions (one more iteration at
\* most, for a parent that is not listed), also when parent pointers form a cycle.
C2_WalkBounded == pc = "walk" => walkCount <= Len(migrations) + 1

\* the lines of the history text
HistoryLines == SplitNewline(historyResult)

HasLine(l) == \E k \in 1..Len(HistoryLines) : HistoryLines[k] = l

\* C3: every history line `<parent> -> <id>, <message>` yields a revision
\* with that id and message, whose downRevision is absent when the parent is
\* None and the parent otherwise.
C3_EveryLineParsed ==
    Parsed =>
      \A t \in HistoryTriples :
        HasLine(HistLine(t[1], t[2], t[3])) =>
          \E i \in 1..Len(migrations) :
            /\ migrations[i].id = t[2]
            /\ migrations[i].message = t[3]
            /\ migrations[i].downRevision =
                 (IF t[1] = NoneText THEN Undefined ELSE t[1])

\* the revisions with a present downRevision
WithParent(list) == {i \in 1..Len(list) : Truthy(list[i].downRevision)}

\* C6: the graph has one node per revision, in order, and exactly one edge
\* parent -> child per revision with a present downRevision; an empty list
\* gives no nodes and no edges.
C6_GraphProjection ==
    (Resolved /\ cmd = "updateGraph") =>
      /\ Len(graph.nodes) = Len(migrations)
      /\ \A i \in 1..Len(migrations) : graph.nodes[i].id = migrations[i].id
      /\ Len(graph.edges) = Cardinality(WithParent(migrations))
      /\ \A i \in WithParent(migrations) :
           \E k \in 1..Len(graph.edges) :
             graph.edges[k] = [from |-> migrations[i].downRevision,
                               to |-> migrations[i].id]
      /\ \A k \in 1..Len(graph.edges) :
           \E i \in WithParent(migrations) :
             graph.edges[k] = [from |-> migrations[i].downRevision,
                               to |-> migrations[i].id]

\* a graph of several revisions, one of them pending, one edge from an unlisted parent
C6_Witness ==
    /\ Resolved
    /\ cmd = "updateGraph"
    /\ Len(graph.nodes) >= 2
    /\ \E i \in 1..Len(migrations) : ~migrations[i].isApplied
    /\ \E k \in 1..Len(graph.edges) :
         \A i \in 1..Len(migrations) : migrations[i].id # graph.edges[k].from

\* a step in which the child process of executeCommand closes
CloseStep == proc.state = "running" /\ settled'.seq # settled.seq

\* C7 as stated: exit code 0 resolves with the captured stdout; a non-zero exit
\* code rejects with an error carrying the captured stderr and the exit code.
C7_ErrorCarriesStderrAndCode ==
    [][CloseStep =>
         /\ settled'.code = 0 =>
              settled'.state = "resolved" /\ settled'.payload = stdout
         /\ settled'.code # 0 =>
              /\ settled'.state = "rejected"
              /\ Contains(settled'.payload, stderr)
              /\ Contains(settled'.payload, DecStr(settled'.code))]_vars

\* C7 amended: exit code 0 resolves with the captured stdout; a non-zero exit
\* code rejects with an error whose message is the captured stderr when that is
\* not empty, and "Process exited with code <code>" otherwise.
C7_SettlesByExitCode ==
    [][CloseStep =>
         /\ settled'.code = 0 =>
              settled'.state = "resolved" /\ settled'.payload = stdout
         /\ settled'.code # 0 =>
              /\ settled'.state = "rejected"
              /\ settled'.payload =
                   (IF stderr # <<>> THEN stderr ELSE ExitMessage(settled'.code))]_vars

\* a process that wrote to stderr has exited with a non-zero code
C7_Witness ==
    /\ settled.state = "rejected"
    /\ settled.code # 0
    /\ settled.payload = ErrChunk

\* the error notifications the action in progress has shown
ErrorNotes == Cardinality({i \in 1..Len(notifications) : notifications[i].kind = "error"})

\* the lines of the output channel that say tag
Tagged(tag) == Cardinality({i \in 1..Len(logLines) : logLines[i].tag = tag})

\* the lines of the output channel that report a failure
DetailLines ==
    Tagged("Error") + Tagged("Could not get Alembic version")
      + Tagged("Warning: Could not get templates from Alembic")

RefreshActions == {"getChildren", "updateGraph"}

InitFailed == settled.state = "rejected" /\ settled.sub = ArgInit

C9_AtMostOneCurrentAnyList == Resolved => CurrentCount(migrations) <= 1

\* C9 amended: at most one revision is current in every returned list whose
\* ids are pairwise distinct.
C9_AtMostOneCurrent ==
    (Resolved /\ UniqueIds(migrations)) => CurrentCount(migrations) <= 1

\* several revisions with distinct ids, one of them current
C9_Witness ==
    /\ Resolved
    /\ UniqueIds(migrations)
    /\ Len(migrations) >= 2
    /\ CurrentCount(migrations) = 1

\* the id written on a well-formed history line
LineId(l) == (CHOOSE t \in HistoryTriples : HistLine(t[1], t[2], t[3]) = l)[2]

IsHistoryLine(l) == \E t \in HistoryTriples : HistLine(t[1], t[2], t[3]) = l

\* a history text is well formed when each of its lines is blank or of the form
\* `<parent> -> <id>, <message>`, and no id is written on two lines
WellFormedHistory(lines) ==
    /\ \A k \in 1..Len(lines) : lines[k] = <<>> \/ IsHistoryLine(lines[k])
    /\ \A k, n \in 1..Len(lines) :
         (IsHistoryLine(lines[k]) /\ IsHistoryLine(lines[n]) /\ k # n)
           => LineId(lines[k]) # LineId(lines[n])

C4_Idempotent == iniPc = "twice" => iniTwice = iniOnce

\* the section a line belongs to: the name in the closest header line above it
InTargetSection(lines, i, section) ==
    LET heads == {h \in 1..(i - 1) : StartsWith(Trim(lines[h]), <<"[">>)}
    IN  /\ heads # {}
        /\ Trim(lines[CHOOSE h \in heads : \A g \in heads : g <= h])
             = SectionHeader(section)

\* the line assigns key k: k is the text before its first "=", trimmed
AssignsKey(line, k) ==
    \E e \in 1..Len(line) :
      /\ line[e] = "="
      /\ \A n \in 1..(e - 1) : line[n] # "="
      /\ Trim(SubSeq(line, 1, e - 1)) = k

\* the lines updateIniSection may change: assignments, inside the target
\* section, of a key of updates
MayChange(lines, i, section, updates) ==
    /\ InTargetSection(lines, i, section)
    /\ \E n \in 1..Len(updates) : AssignsKey(lines[i], updates[n][1])

\* the lines of `lines` at the positions in `keep`, in order
RECURSIVE Pick(_, _, _)
Pick(lines, i, keep) ==
    IF i > Len(lines) THEN <<>>
    ELSE IF i \in keep THEN <<lines[i]>> \o Pick(lines, i + 1, keep)
    ELSE Pick(lines, i + 1, keep)

\* sub occurs in full as a subsequence (same lines, same relative order)
RECURSIVE IsSubsequence(_, _)
IsSubsequence(sub, full) ==
    IF sub = <<>> THEN TRUE
    ELSE IF full = <<>> THEN FALSE
    ELSE IF Head(sub) = Head(full) THEN IsSubsequence(Tail(sub), Tail(full))
    ELSE IsSubsequence(sub, Tail(full))

SectionExists(lines, section) ==
    \E i \in 1..Len(lines) : Trim(lines[i]) = SectionHeader(section)

\* C5: when the target section exists, every input line that is not an
\* assignment of an updated key inside that section appears verbatim in the
\* output, and these lines keep their relative order.
C5_OtherLinesKept ==
    (iniPc \in {"once", "twice"} /\ SectionExists(SplitLines(iniContent), iniSection)) =>
      LET lines == SplitLines(iniContent)
          keep == {i \in 1..Len(lines) : ~MayChange(lines, i, iniSection, iniUpdates)}
      IN  IsSubsequence(Pick(lines, 1, keep), SplitLines(iniOnce))

\* a section with a rewritten key, beside a comment and a line of another
\* section that assign the same key
C5_Witness ==
    /\ iniPc = "once"
    /\ iniUpdates # <<>>
    /\ LET lines == SplitLines(iniContent)
       IN  /\ SectionExists(lines, iniSection)
           /\ \E i \in 1..Len(lines) : MayChange(lines, i, iniSection, iniUpdates)
           /\ \E i \in 1..Len(lines) :
                /\ ~InTargetSection(lines, i, iniSection)
                /\ \E n \in 1..Len(iniUpdates) : AssignsKey(lines[i], iniUpdates[n][1])
    /\ iniOnce # iniContent

\* C11: every node of the graph has the revision's shortId as label and its
\* message as title; its colour is green for the current revision, blue for an
\* applied revision that is not current, and amber for a revision that is not
\* applied.
C11_NodeColours ==
    (Resolved /\ cmd = "updateGraph") =>
      /\ Len(graph.nodes) = Len(migrations)
      /\ \A i \in 1..Len(migrations) :
           /\ graph.nodes[i].label = migrations[i].shortId
           /\ graph.nodes[i].title = migrations[i].message
           /\ migrations[i].isCurrent => graph.nodes[i].color = "#4CAF50"
           /\ (migrations[i].isApplied /\ ~migrations[i].isCurrent) =>
                graph.nodes[i].color = "#2196F3"
           /\ ~migrations[i].isApplied => graph.nodes[i].color = "#FFC107"

\* a graph with the current revision (applied as well, shown green) and an
\* applied ancestor of it (shown blue)
C11_Witness ==
    /\ Resolved
    /\ cmd = "updateGraph"
    /\ \E i, j \in 1..Len(migrations) :
         /\ migrations[i].isCurrent
         /\ migrations[i].isApplied
         /\ graph.nodes[i].color = "#4CAF50"
         /\ migrations[j].isApplied
         /\ ~migrations[j].isCurrent
         /\ graph.nodes[j].color = "#2196F3"

\* the first header line of the section
TargetStart(lines, section) ==
    MinOf({i \in 1..Len(lines) : Trim(lines[i]) = SectionHeader(section)})

\* the header line of the next section after line s (one past the last line
\* when the section is the last one)
NextHeader(lines, s, section) ==
    LET later == {i \in (s + 1)..Len(lines) :
                    /\ StartsWith(Trim(lines[i]), <<"[">>)
                    /\ Trim(lines[i]) # SectionHeader(section)}
    IN  IF later = {} THEN Len(lines) + 1 ELSE MinOf(later)

\* the lines from..to - 1 that assign key k
Assigning(lines, from, to, k) ==
    {i \in from..(to - 1) : i <= Len(lines) /\ AssignsKey(lines[i], k)}

\* C12: when the target section exists, every key of updates that no line of
\* the section assigns becomes one new `key = value` line; the new lines stand
\* together immediately before the header of the next section, or are the last
\* lines of the file when there is none; a key the section assigns is rewritten
\* where it stands and gets no new line.
C12_MissingKeysInserted ==
    (iniPc \in {"once", "twice"} /\ SectionExists(SplitLines(iniContent), iniSection)) =>
      LET in == SplitLines(iniContent)
          out == SplitLines(iniOnce)
          s == TargetStart(in, iniSection)
          e == NextHeader(in, s, iniSection)
          present == {n \in 1..Len(iniUpdates) :
                        Assigning(in, s + 1, e, iniUpdates[n][1]) # {}}
          missing == (1..Len(iniUpdates)) \ present
          count == Cardinality(missing)
      IN  /\ Len(out) = Len(in) + count
          /\ \A n \in missing :
               \E i \in e..(e + count - 1) : out[i] = KeyValueLine(iniUpdates[n])
          /\ \A i \in 1..(e - 1) : i \notin UNION {Assigning(in, s + 1, e, iniUpdates[n][1]) :
                                                     n \in present} => out[i] = in[i]
          /\ \A i \in e..Len(in) : out[i + count] = in[i]
          /\ \A n \in present :
               /\ \A i \in Assigning(in, s + 1, e, iniUpdates[n][1]) :
                    out[i] = KeyValueLine(iniUpdates[n])
               /\ Assigning(out, s + 1, e + count, iniUpdates[n][1])
                    = Assigning(in, s + 1, e, iniUpdates[n][1])

\* a section that assigns one key of updates and lacks the other, followed by
\* another section: one line is rewritten, one is inserted before the header
C12_Witness ==
    /\ iniPc = "once"
    /\ Len(iniUpdates) = 2
    /\ LET in == SplitLines(iniContent)
           out == SplitLines(iniOnce)
       IN  /\ SectionExists(in, iniSection)
           /\ LET s == TargetStart(in, iniSection)
                  e == NextHeader(in, s, iniSection)
              IN  /\ e <= Len(in)
                  /\ Assigning(in, s + 1, e, KeyK) # {}
                  /\ Assigning(in, s + 1, e, KeyJ) = {}
                  /\ Len(out) = Len(in) + 1
                  /\ out[e] = KeyValueLine(iniUpdates[2])
                  /\ out[e + 1] = in[e]

\* the non-empty lines of `lines`, in order
NonEmptyLines(lines) == Pick(lines, 1, {i \in 1..Len(lines) : lines[i] # <<>>})

\* C13: when no line is the header of the target section, the output starts
\* with the whole input text, unchanged, and continues with one block and
\* nothing else: the header line of the section, then one `key = value` line
\* per entry of updates, in their order.
C13_SectionAppended ==
    (iniPc \in {"once", "twice"} /\ ~SectionExists(SplitLines(iniContent), iniSection)) =>
      /\ Len(iniOnce) > Len(iniContent)
      /\ SubSeq(iniOnce, 1, Len(iniContent)) = iniContent
      /\ iniOnce[Len(iniOnce)] = "\n"
      /\ LET rest == SubSeq(iniOnce, Len(iniContent) + 1, Len(iniOnce))
         IN  NonEmptyLines(SplitNewline(rest))
               = <<SectionHeader(iniSection)>>
                   \o [n \in 1..Len(iniUpdates) |-> KeyValueLine(iniUpdates[n])]

\* a text with lines of another section, in CRLF and without a final line
\* ending, gets the new section with two keys
C13_Witness ==
    /\ iniPc = "once"
    /\ Len(iniUpdates) = 2
    /\ ~SectionExists(SplitLines(iniContent), iniSection)
    /\ Contains(iniContent, <<"\r", "\n">>)
    /\ iniContent[Len(iniContent)] # "\n"
    /\ Contains(iniOnce, <<"\n">> \o SectionHeader(iniSection) \o <<"\n">>
                           \o KeyValueLine(iniUpdates[1]) \o <<"\n">>
                           \o KeyValueLine(iniUpdates[2]) \o <<"\n">>)

\* the line is blank or a comment: its first non-blank character is ; or #
BlankOrComment(line) ==
    \A n \in 1..Len(line) :
      line[n] \in SpaceChars \/
        \E c \in 1..n : /\ line[c] \in {";", "#"}
                        /\ \A b \in 1..(c - 1) : line[b] \in SpaceChars

\* the line is a header `[name]`
HeaderLine(line) ==
    /\ ~BlankOrComment(line)
    /\ Len(Trim(line)) >= 3
    /\ Head(Trim(line)) = "["
    /\ Trim(line)[Len(Trim(line))] = "]"

HeaderName(line) == SubSeq(Trim(line), 2, Len(Trim(line)) - 1)

\* the line is a `key = value` line
KeyValue(line) ==
    /\ ~BlankOrComment(line)
    /\ ~HeaderLine(line)
    /\ \E e \in 2..Len(line) : line[e] = "=" /\ \A n \in 1..(e - 1) : line[n] # "="

KeyOf(line) == Trim(SubSeq(line, 1, MinOf({e \in 1..Len(line) : line[e] = "="}) - 1))

ValueOf(line) ==
    Trim(SubSeq(line, MinOf({e \in 1..Len(line) : line[e] = "="}) + 1, Len(line)))

\* the name in the most recent header above line i (the empty name when
\* there is none)
SectionAt(lines, i) ==
    LET heads == {h \in 1..(i - 1) : HeaderLine(lines[h])}
    IN  IF heads = {} THEN <<>>
        ELSE HeaderName(lines[CHOOSE h \in heads : \A g \in heads : g <= h])

\* the `key = value` lines of section s that assign key k
Occurrences(lines, s, k) ==
    {i \in 1..Len(lines) :
       KeyValue(lines[i]) /\ SectionAt(lines, i) = s /\ KeyOf(lines[i]) = k}

\* C14: the result of parseIni has the sections named by the header lines (and
\* the section of the empty name for `key = value` lines above every header);
\* a section has exactly the keys of the `key = value` lines below its header,
\* each with the value of the last line that assigns it; blank lines and
\* comment lines add nothing.
C14_ParseLastWins ==
    iniPc = "parsed" =>
      LET lines == SplitLines(iniContent)
          kv == {i \in 1..Len(lines) : KeyValue(lines[i])}
      IN  /\ DOMAIN iniParsed
               = {HeaderName(lines[h]) : h \in {g \in 1..Len(lines) : HeaderLine(lines[g])}}
                   \cup {SectionAt(lines, i) : i \in kv}
          /\ \A s \in DOMAIN iniParsed :
               /\ DOMAIN iniParsed[s]
                    = {KeyOf(lines[i]) : i \in {j \in kv : SectionAt(lines, j) = s}}
               /\ \A k \in DOMAIN iniParsed[s] :
                    LET occ == Occurrences(lines, s, k)
                    IN  iniParsed[s][k] =
                          ValueOf(lines[CHOOSE i \in occ : \A j \in occ : j <= i])

\* a section that assigns a key twice, with different values, beside a comment
\* that looks like an assignment of the same key
C14_Witness ==
    /\ iniPc = "parsed"
    /\ LET lines == SplitLines(iniContent)
       IN  /\ \E i \in 1..Len(lines) : BlankOrComment(lines[i]) /\ Contains(lines[i], <<"=">>)
           /\ \E s \in DOMAIN iniParsed : \E k \in DOMAIN iniParsed[s] :
                LET occ == Occurrences(lines, s, k)
                IN  /\ Cardinality(occ) = 2
                    /\ \E i, j \in occ :
                         /\ i < j
                         /\ ValueOf(lines[i]) # ValueOf(lines[j])
                         /\ iniParsed[s][k] = ValueOf(lines[j])

\* C15 as stated: when the executable cannot be launched, the pending
\* executeCommand call is rejected with a ProcessSpawnError, a class of its own
\* beside the error of a non-zero exit, and an action that ends there has
\* shown the raw message to the user.
C15_SpawnErrorDistinct ==
    [][(CloseStep /\ proc.failed) =>
         /\ settled'.state = "rejected"
         /\ settled'.error = "ProcessSpawnError"
         /\ pc' = "done" =>
              \E i \in 1..Len(notifications') :
                /\ notifications'[i].kind = "error"
                /\ notifications'[i].detail = settled'.payload]_vars

\* a step in which executeCommand spawns a child process
SpawnStep ==
    /\ proc'.state = "running"
    /\ proc.state # "running" \/ settled'.seq # settled.seq

Subcommands ==
    {ArgVersion, ArgInit, ArgRevision, ArgUpgrade, ArgDowngrade, ArgHistory,
     ArgCurrent, ArgHeads, ArgMerge, ArgListTemplates}

LastWriters == {w \in Writers : edOps[w].wrote > 0 /\ edOps[w].wrote = WritesDone}

(***************************************************************************)
(* C18: the configuration file is read and rewritten without a lock.  Once *)
(* writes of applyRevisionStrategy or saveIni have completed, the file     *)
(* holds exactly the text of the write that completed last, and that text  *)
(* is, for applyRevisionStrategy, the patch of what the operation had read *)
(* (not of what the file held when it wrote): an edit written between the  *)
(* read and the write is overwritten.  With no write the file is as found. *)
(***************************************************************************)
C18_LastWriterWins ==
    /\ WritesDone = 0 => iniFile = iniContent
    /\ WritesDone > 0 => Cardinality(LastWriters) = 1
    /\ \A w \in LastWriters :
         /\ iniFile = edOps[w].text
         /\ edOps[w].op = "apply" =>
              edOps[w].text = updateIniSection(edOps[w].raw, SectionAlembic,
                                               edOps[w].base)
         /\ edOps[w].op = "save" => edOps[w].text \in SaveContents

\* a save was written between the read and the write of an
\* applyRevisionStrategy: the file holds the patch of the old text, and
\* the saved content is gone
C18_Witness ==
    \E a \in Writers, s \in Writers :
       /\ edOps[a].op = "apply" /\ edOps[s].op = "save"
       /\ edOps[s].wrote = 1 /\ edOps[a].wrote = 2
       /\ edOps[a].raw = iniContent
       /\ edOps[s].text # iniContent
       /\ iniFile = updateIniSection(iniContent, SectionAlembic, edOps[a].base)
       /\ iniFile # updateIniSection(edOps[s].text, SectionAlembic, edOps[a].base)
       /\ iniFile # edOps[s].text


(***************************************************************************)
(* C19: when the history text is empty or holds no line the pattern of     *)
(* parseMigrations matches, getMigrations returns the empty list without   *)
(* logging an error or showing a notification, and the tree view shows the *)
(* single item `No migrations found`.                                      *)
(***************************************************************************)
C19_EmptyHistoryIsNoError ==
    (/\ Resolved
     /\ settled.state = "resolved"
     /\ \A k \in 1..Len(HistoryLines) : ~HistoryLineMatch(HistoryLines[k]).matched)
      => /\ migrations = <<>>
         /\ consoleErrors = <<>>
         /\ notifications = <<>>
         /\ cmd = "getChildren" =>
              /\ Len(getChildren(migrations)) = 1
              /\ getChildren(migrations)[1].label = NoMigrationsFound
              /\ getChildren(migrations)[1].contextValue = "info"

\* the tree view has asked for its children and the history text holds one
\* line, which the pattern does not match
C19_Witness ==
    /\ Resolved
    /\ cmd = "getChildren"
    /\ settled.state = "resolved"
    /\ historyResult # <<>>
    /\ \A k \in 1..Len(HistoryLines) : ~HistoryLineMatch(HistoryLines[k]).matched
    /\ getChildren(migrations) = <<MigrationItem(NoMigrationsFound, <<>>, "None", "info")>>


\* the ids of the listed revisions
ListedIds(list) == {list[i].id : i \in 1..Len(list)}

\* no cycle among the parent pointers: every non-empty group of revisions
\* has a member whose downRevision is no member's id
NoPointerCycle(list) ==
    \A S \in (SUBSET (1..Len(list))) \ {{}} :
       \E i \in S : \A j \in S : list[i].downRevision # list[j].id

\* the walk of the action in progress has been started
Walked ==
    /\ cmd \in {"getChildren", "updateGraph"}
    /\ pc \in {"walk", "done"}
    /\ settled.state = "resolved"
    /\ walkCount >= 1

(***************************************************************************)
(* C20: a downRevision that names no listed revision is tolerated.  Once   *)
(* the walk has visited an id that is not listed it has stopped, the       *)
(* listed revisions it visited are marked applied in the returned list,    *)
(* and when the parent pointers have no cycle the walk takes at most       *)
(* (number of revisions + 1) iterations.                                   *)
(***************************************************************************)
C20_DanglingTolerated ==
    Walked =>
      /\ (\E x \in applied : x \notin ListedIds(migrations)) => ~Truthy(walker)
      /\ pc = "done" =>
           \A i \in 1..Len(migrations) :
              migrations[i].id \in applied => migrations[i].isApplied
      /\ NoPointerCycle(migrations) => walkCount <= Len(migrations) + 1

\* the walk went from the current revision to its parent, which is not
\* listed, and getMigrations returned with the current revision applied
C20_Witness ==
    /\ Walked
    /\ pc = "done"
    /\ NoPointerCycle(migrations)
    /\ \E x \in applied : x \notin ListedIds(migrations)
    /\ \E i \in 1..Len(migrations) :
         /\ migrations[i].isCurrent
         /\ migrations[i].isApplied
         /\ migrations[i].downRevision \notin ListedIds(migrations)
         /\ Truthy(migrations[i].downRevision)
    /\ walkCount = Len(migrations) + 1


(***************************************************************************)
(* Properties of the file watcher.                                         *)
(***************************************************************************)
\* a step in which the file watcher handles an event
FileEventStep ==
    /\ watchLog' # watchLog
    /\ watchLog'[Len(watchLog')] \in FileEvents

\* C21: a create, delete or change event of the file watcher refreshes the
\* migration list if and only if autoRefresh is true when the event is
\* handled; while autoRefresh is false no file event refreshes the list.
C21_RefreshIffAutoRefresh ==
    [][FileEventStep =>
         /\ autoRefresh => treeFires' = treeFires + 1
         /\ ~autoRefresh => treeFires' = treeFires]_vars

\* a file was changed while autoRefresh was off (no refresh), the setting was
\* switched on (the configuration watcher's refresh), and a file was deleted
\* (the second refresh)
C21_Witness ==
    /\ watchLog = <<"change", "config", "delete">>
    /\ autoRefresh
    /\ treeFires = 2


(***************************************************************************)
(* Properties of the template list of initAlembic.                         *)
(***************************************************************************)
EndsWith(t, suffix) ==
    /\ Len(suffix) <= Len(t)
    /\ SubSeq(t, Len(t) - Len(suffix) + 1, Len(t)) = suffix

\* `list_templates` has settled and the template list has been offered
TemplatesOffered ==
    /\ cmd = "initAlembic"
    /\ pc \in {"run", "done"}
    /\ settled.sub = ArgListTemplates

\* the templates found in the output of `list_templates`, in its order
TemplatesFound ==
    IF settled.state = "resolved"
    THEN ScanTemplateLines(SplitNewline(settled.payload), FALSE)
    ELSE <<>>

\* C22: the template list offered during initialisation is never empty; when
\* it holds `generic`, that entry is the first one and its description ends
\* with ` (Recommended)`; when `list_templates` fails or its output yields no
\* template, the list is the built-in fallback list.  The template passed to
\* `init` is one of the list.
C22_TemplateList ==
    TemplatesOffered =>
      LET templates == getAvailableTemplates(settled)
      IN  /\ Len(templates) >= 1
          /\ \A i \in 1..Len(templates) :
               templates[i].label = GenericLabel =>
                 /\ templates[1].label = GenericLabel
                 /\ EndsWith(templates[i].description, RecommendedText)
          /\ (settled.state = "rejected" \/ TemplatesFound = <<>>) =>
               templates = getFallbackTemplates
          /\ TemplatesFound # <<>> =>
               \A i \in 1..Len(TemplatesFound) :
                  \E k \in 1..Len(templates) : templates[k] = TemplatesFound[i]
          /\ pc = "run" =>
               \E k \in 1..Len(templates) : proc.args[6] = templates[k].label

\* the listing names `async` before `generic`, and the list offered has
\* `generic (Recommended)` first and `async` second
C22_Witness ==
    /\ TemplatesOffered
    /\ Len(TemplatesFound) = 2
    /\ TemplatesFound[1].label = AsyncLabel
    /\ getAvailableTemplates(settled)[1].label = GenericLabel
    /\ EndsWith(getAvailableTemplates(settled)[1].description, RecommendedText)
    /\ getAvailableTemplates(settled)[2].label = AsyncLabel


(***************************************************************************)
(* Properties of AlembicUtils.                                             *)
(***************************************************************************)
\* the function fn has been applied to utilIn
Applied(fn) == utilPc = "done" /\ utilIn.fn = fn

\* C23: formatMessage(message, maxLength) is `No description` for the empty
\* message, the message itself when it has at most maxLength characters, and
\* otherwise its first maxLength - 3 characters followed by `...`; so for a
\* non-empty message the result never has more than maxLength characters.
C23_FormatMessage ==
    Applied("formatMessage") =>
      LET message == utilIn.text
          maxLength == utilIn.n
      IN  /\ message = <<>> => utilOut = NoDescription
          /\ (message # <<>> /\ Len(message) <= maxLength) => utilOut = message
          /\ Len(message) > maxLength =>
               /\ EndsWith(utilOut, <<".", ".", ".">>)
               /\ \A k \in 1..(maxLength - 3) : utilOut[k] = message[k]
               /\ Len(utilOut) = (IF maxLength >= 3 THEN maxLength ELSE 3)
          /\ message # <<>> => Len(utilOut) <= maxLength


\* the first n characters of a text, the whole text when it is shorter
Prefix(text, n) == [k \in 1..(IF n < Len(text) THEN n ELSE Len(text)) |-> text[k]]

\* C24: getShortHash(hash, length) is the first `length` characters of the
\* hash, the whole hash when it is shorter; the shortId of a parsed revision
\* is the first 8 characters of its id, or the full id when showFullHash is
\* set.
C24_ShortHash ==
    /\ Applied("getShortHash") => utilOut = Prefix(utilIn.text, utilIn.n)
    /\ Applied("parseMigrations") =>
         /\ Len(utilOut) = 1
         /\ utilOut[1].id = utilIn.text
         /\ utilOut[1].shortId = (IF utilIn.showFullHash THEN utilIn.text
                                  ELSE Prefix(utilIn.text, 8))

\* a revision id of more than 8 characters has been parsed without
\* showFullHash: its shortId has 8 characters
C24_Witness ==
    /\ Applied("parseMigrations")
    /\ ~utilIn.showFullHash
    /\ Len(utilIn.text) > 8
    /\ Len(utilOut[1].shortId) = 8


\* what one character of the message becomes in the file name
SanitizedChar(c) ==
    LET low == ToLowerChar(c)
    IN  IF low \in SpaceChars THEN <<"_">>
        ELSE IF low \in Digits \/ (\E k \in 1..Len(LowerLetters) : LowerLetters[k] = low)
        THEN <<low>>
        ELSE <<>>

RECURSIVE SanitizedAll(_)
SanitizedAll(message) ==
    IF message = <<>> THEN <<>>
    ELSE SanitizedChar(Head(message)) \o SanitizedAll(Tail(message))

\* C25: sanitizeMessage lower-cases the message, removes every character
\* other than a-z, 0-9 and white space, replaces every white-space character
\* by one underscore and keeps at most the first 50 characters; the result
\* holds only a-z, 0-9 and `_`.
C25_SanitizeMessage ==
    Applied("sanitizeMessage") =>
      /\ utilOut = Prefix(SanitizedAll(utilIn.text), 50)
      /\ utilIn.text = ExampleMessage =>
           utilOut =
             <<"a", "d", "d", "_", "u", "s", "e", "r", "_", "t", "a", "b",
               "l", "e", "_", "_", "r", "e", "l", "a", "t", "i", "o", "n",
               "s">>
      /\ Len(utilOut) <= 50
      /\ \A k \in 1..Len(utilOut) :
           \/ utilOut[k] = "_"
           \/ utilOut[k] \in Digits
           \/ \E j \in 1..Len(LowerLetters) : LowerLetters[j] = utilOut[k]

\* a message of more than 50 characters with a capital, a blank and a
\* character that is removed has been cut to 50 characters
C25_Witness ==
    /\ Applied("sanitizeMessage")
    /\ Len(utilIn.text) > 50
    /\ Len(utilOut) = 50
    /\ \E k \in 1..Len(utilIn.text) : utilIn.text[k] = "&"
    /\ \E k \in 1..Len(utilIn.text) : utilIn.text[k] = " "
    /\ utilOut[1] = "z"


(***************************************************************************)
(* Properties of the webview panels.                                       *)
(***************************************************************************)
\* C26: for the graph view and the settings view, whatever show() calls and
\* panel closes have happened (a close while show() is still loading the
\* template included), the stored handle is unset or refers to a panel that
\* is not disposed, and at most one panel of the view is live.
C26_PanelHandleLive ==
    \A v \in Views :
       /\ views[v].panel = 0 \/ views[v].panel \notin views[v].disposed
       /\ Cardinality(LivePanels(views[v])) <= 1


(***************************************************************************)
(* Properties of the tree view's groups.                                   *)
(***************************************************************************)
\* the revisions of each group of getChildren, by position in the list
GroupCurrent(list) == {i \in 1..Len(list) : list[i].isCurrent}

GroupApplied(list) == {i \in 1..Len(list) : list[i].isApplied /\ ~list[i].isCurrent}

GroupPending(list) == {i \in 1..Len(list) : ~list[i].isApplied}

\* the items of the tree that stand for a migration
MigrationItems(list) ==
    LET IsMigration(item) == item.contextValue = "migration"
    IN  SelectSeq(getChildren(list), IsMigration)

\* C27: in every list getMigrations returns, a current revision is applied;
\* so the groups Current, Applied and Pending of the tree view are pairwise
\* disjoint and every revision appears in the tree exactly once.
C27_CurrentIsApplied ==
    Resolved =>
      /\ \A i \in 1..Len(migrations) :
           migrations[i].isCurrent => migrations[i].isApplied
      /\ GroupCurrent(migrations) \cap GroupApplied(migrations) = {}
      /\ GroupCurrent(migrations) \cap GroupPending(migrations) = {}
      /\ GroupApplied(migrations) \cap GroupPending(migrations) = {}
      /\ Len(MigrationItems(migrations)) = Len(migrations)
      /\ \A i \in 1..Len(migrations) :
           Cardinality({k \in 1..Len(MigrationItems(migrations)) :
                          MigrationItems(migrations)[k].id = migrations[i].id})
             = Cardinality({j \in 1..Len(migrations) :
                              migrations[j].id = migrations[i].id})

\* the tree view has a current and an applied revision, one item each under
\* the categories Current and Applied
C27_Witness ==
    /\ Resolved
    /\ cmd = "getChildren"
    /\ Len(migrations) = 2
    /\ Cardinality(GroupCurrent(migrations)) = 1
    /\ Cardinality(GroupApplied(migrations)) = 1
    /\ Len(getChildren(migrations)) = 4


(***************************************************************************)
(* Properties of the refresh after a command.                              *)
(***************************************************************************)
RefreshingCommands == {"createMigration", "upgrade", "downgrade", "mergeBranches"}

\* the subcommand of the subprocess that changes the state, per command
StateChangingSubcommand(c) ==
    CASE c = "createMigration" -> ArgRevision
      [] c = "upgrade" -> ArgUpgrade
      [] c = "downgrade" -> ArgDowngrade
      [] c = "mergeBranches" -> ArgMerge
      [] c = "initAlembic" -> ArgInit

\* the action in progress has issued the command alembic.refreshMigrations
RefreshIssued == \E k \in 1..Len(calls) : calls[k] = "alembic.refreshMigrations"

\* C28: createMigration, upgrade, downgrade and mergeBranches issue the
\* refresh of the migration list only once their subprocess has exited with
\* code 0; when a subprocess of the action fails, the error is shown and the
\* action issues no refresh.
C28_RefreshAfterSuccess ==
    cmd \in RefreshingCommands =>
      /\ RefreshIssued =>
           /\ pc = "done"
           /\ inFlight = {}
           /\ settled.state = "resolved"
           /\ settled.code = 0
           /\ settled.sub = StateChangingSubcommand(cmd)
      /\ (pc = "done" /\ settled.state = "rejected") =>
           /\ ~RefreshIssued
           /\ \E k \in 1..Len(notifications) :
                /\ notifications[k].kind = "error"
                /\ notifications[k].text = FailureText(cmd)

\* the merge subprocess of mergeBranches has exited with code 0 and the
\* refresh has been issued
C28_Witness ==
    /\ cmd = "mergeBranches"
    /\ pc = "done"
    /\ settled.sub = ArgMerge
    /\ settled.code = 0
    /\ calls = <<"alembic.refreshMigrations">>


(***************************************************************************)
(* Properties of updateIniSection and parseIni together.                   *)
(***************************************************************************)
\* the value parseIni gives for a key of a section (undefined when absent)
ParsedValue(data, section, key) ==
    IF section \in DOMAIN data /\ key \in DOMAIN data[section]
    THEN data[section][key]
    ELSE Undefined

\* the writers whose applyRevisionStrategy has patched, written and parsed
\* the file
Patched == {w \in Writers : edOps[w].op = "apply" /\ edOps[w].wrote > 0}

\* C29: parsing the output of updateIniSection(text, s, u) gives, for every
\* key k of u, the trimmed value u[k] under section s, also for a text that
\* has the header [s] more than once or assigns k several times.
C29_PatchThenParse ==
    \A w \in Patched :
       \A n \in 1..Len(edOps[w].base) :
          ParsedValue(edOps[w].posted, SectionAlembic, edOps[w].base[n][1])
            = Trim(edOps[w].base[n][2])

(***************************************************************************)
(* Properties of the prompts that precede a state-changing subprocess.     *)
(***************************************************************************)
\* the distinct heads that the settled `heads -v` of mergeBranches listed
ListedHeads ==
    LET rawHeads == RawHeads(SplitNewline(settled.payload))
    IN  {rawHeads[i] : i \in 1..Len(rawHeads)}

\* the heads on the command line of a `merge`: what lies between the
\* subcommand and `-m <message>`
MergedHeads(p) == SubSeq(p.args, 5, Len(p.args) - 2)

\* the action returned before its first subprocess: nothing was started,
\* nothing settled, nothing logged or notified
ReturnedAtPrompt ==
    /\ pc = "done"
    /\ proc = NoProc
    /\ inFlight = {}
    /\ settled = NoResult
    /\ logLines = <<>>
    /\ notifications = <<>>

\* C30: a state-changing subprocess runs only with the input it requires:
\* `revision` with a non-empty message, `downgrade` with a target, `init`
\* with a workspace, a template and a directory name, `merge` with at least
\* two selected heads out of at least two distinct listed heads; and no
\* empty or dismissed prompt of createMigration or downgrade yields a
\* command line.
C30_NoRunWithoutInput ==
    /\ \A c \in {"createMigration", "downgrade"} :
         \A answer \in {Undefined, <<>>}, nextId \in NextIds(c) :
            FirstCommand(c, Undefined, answer, nextId) = <<>>
    /\ proc.state = "running" =>
         CASE Subcommand(proc) = ArgRevision ->
                /\ cmd = "createMigration"
                /\ proc.args[6] = ArgMessage
                /\ Truthy(proc.args[7])
           [] Subcommand(proc) = ArgDowngrade ->
                /\ cmd = "downgrade"
                /\ Len(proc.args) = 5
                /\ Truthy(proc.args[5])
           [] Subcommand(proc) = ArgInit ->
                /\ cmd = "initAlembic"
                /\ workspace
                /\ Len(proc.args) = 7
                /\ proc.args[5] = ArgTemplate
                /\ Truthy(proc.args[6])
                /\ Truthy(proc.args[7])
           [] Subcommand(proc) = ArgMerge ->
                /\ cmd = "mergeBranches"
                /\ settled.sub = ArgHeads
                /\ settled.state = "resolved"
                /\ Cardinality(ListedHeads) >= 2
                /\ Len(MergedHeads(proc)) >= 2
                /\ \A k \in 1..Len(MergedHeads(proc)) : MergedHeads(proc)[k] \in ListedHeads
           [] OTHER -> TRUE

\* createMigration or downgrade has returned at its prompt
C30_Witness ==
    /\ cmd \in {"createMigration", "downgrade"}
    /\ ReturnedAtPrompt

=============================================================================
